---- MODULE Spec2Model ----
(***************************************************************************)
(* Webhook delivery pipeline of yesod-auth: the config loader, the event   *)
(* model, the emitter, the Valkey queue and the delivery worker            *)
(* (api/app/webhooks/*.py), as a state machine.                            *)
(*                                                                         *)
(* Coroutines are modelled at their suspension points: a step of a         *)
(* coroutine runs from one `await` that really suspends to the next one,   *)
(* which is the atomicity asyncio gives on one event loop.                 *)
(***************************************************************************)
EXTENDS Integers, Sequences, FiniteSets, TLC

----------------------------------------------------------------------------
(* Bounds of the model *)

\* emit() calls that get as far as creating an event
MaxEvents == 2
\* _process_loop tasks that start() may create
MaxTasks == 3
\* stop() calls
MaxStops == 2
\* largest max_retries a configuration source of the model sets
MaxRetriesBound == 2
\* largest retry_base_delay_seconds a configuration source of the model sets
MaxBaseDelay == 1
\* events of the one-loop delivery scenario
DeliveryEvents == 1
\* events of the delivery-log scenario
LogEvents == 1
\* events of the emission-order scenario
OrderEvents == 3
\* events of the emitter scenario
EmitEvents == 2
\* events of the reload scenario
ReloadEvents == 1
\* events of the queue scenario
QueueEvents == 1
\* events of the endpoint-list scenario
LoadEvents == 1
\* events of the payload scenario
PayloadEvents == 2
\* users of the payload scenario
MaxUsers == 2
\* queue length up to which other clients push entries
MaxQueueLen == 2
\* events of the request-handler scenario
CallerEvents == 2
\* largest Unix timestamp a signature is made at
MaxTimestamp == 10
\* longest payload text of the signer scenario, in characters
MaxPayloadLen == 1
\* longest secret of the signer scenario, in characters
MaxSecretLen == 1

----------------------------------------------------------------------------
(* Optional values: Python's None is the empty tuple, a value v is <<v>> *)

None == <<>>

Some(v) == <<v>>

Min(a, b) == IF a <= b THEN a ELSE b

RECURSIVE Pow2(_)
Pow2(n) == IF n <= 0 THEN 1 ELSE 2 * Pow2(n - 1)

\* the elements of a sequence
Range(s) == {s[i] : i \in 1..Len(s)}

----------------------------------------------------------------------------
(* Program constants *)

\* WebhookSettings defaults
DefaultMaxRetries == 5
DefaultRetryBaseDelay == 2
DefaultDeliveryTimeout == 30
\* error_message is cut to this many characters
ErrorMessageLimit == 500
\* length of the literal "Request timeout"
RequestTimeoutLen == 15
\* _process_loop backs off this many seconds after an unexpected exception
LoopErrorBackoff == 1

\* event types the callers emit; no endpoint of the model subscribes to the last
EventTypes == {"user.created", "user.login", "user.deleted"}

----------------------------------------------------------------------------
(* config.py: WebhookEndpoint, WebhookSettings, WebhookConfig, loader *)

\* a bug: every endpoint subscribes to every event type
subscribes_to_Any(ep, event_type) == TRUE

\* WebhookEndpoint.subscribes_to
subscribes_to(ep, event_type) == event_type \in Range(ep.events)

\* WebhookConfig(): no endpoints, default settings
EmptyConfig ==
    [endpoints |-> <<>>,
     settings |-> [max_retries |-> DefaultMaxRetries,
                   retry_base_delay_seconds |-> DefaultRetryBaseDelay,
                   delivery_timeout_seconds |-> DefaultDeliveryTimeout]]

\* A secret, a secret reference and the content of a secret file are texts:
\* sequences of chunks of characters. Whitespace is a chunk of its own.
Whitespace == {" ", "\n"}

\* str.strip()
RECURSIVE Strip(_)
Strip(text) ==
    IF text = <<>> THEN text
    ELSE IF Head(text) \in Whitespace THEN Strip(Tail(text))
    ELSE IF text[Len(text)] \in Whitespace THEN Strip(SubSeq(text, 1, Len(text) - 1))
    ELSE text

\* re.match(r"^\$\{(\w+)\}$", secret_ref): the reference is ${NAME}
IsVarRef(secret_ref) ==
    /\ Len(secret_ref) = 3
    /\ secret_ref[1] = "${"
    /\ secret_ref[2] \notin Whitespace
    /\ secret_ref[3] = "}"

\* str.lower() on the variable names of the model
Lower(name) == IF name = "HOOK_SECRET" THEN "hook_secret" ELSE name

\* the secret file /run/secrets/<name> of a deployment (absent when the
\* store has no such name)
SecretFile(src, name) ==
    IF name \in DOMAIN src.secrets THEN src.secrets[name]
    ELSE [state |-> "absent", text |-> <<>>]

\* os.environ.get(var_name); unset is the empty text
EnvValue(src, var_name) ==
    IF var_name \in DOMAIN src.env THEN src.env[var_name] ELSE <<>>

\* _resolve_secret: the secret of a reference, the empty text when there is
\* none. A literal reference is the secret itself. For ${NAME} a secret file
\* that exists and can be read gives its stripped content, empty or not; a
\* file that cannot be opened (OSError) leaves the environment variable; a
\* file that is not UTF-8 makes read_text raise UnicodeDecodeError, a
\* ValueError that load() takes for an invalid endpoint.
_resolve_secret(secret_ref, src) ==
    IF ~IsVarRef(secret_ref) THEN secret_ref
    ELSE LET file == SecretFile(src, Lower(secret_ref[2]))
         IN IF file.state = "ok" THEN Strip(file.text)
            ELSE IF file.state = "undecodable" THEN <<>>
            ELSE EnvValue(src, secret_ref[2])

\* _parse_endpoint: TRUE iff the raw endpoint passes validation. A missing or
\* empty field is the empty text / empty list, which Python's `not` rejects.
EndpointValid(data, src) ==
    /\ data.id # ""
    /\ data.url # <<>>
    /\ data.secret # <<>>
    /\ data.events # <<>>
    /\ Head(data.url) = "https://"
    /\ _resolve_secret(data.secret, src) # <<>>

\* _parse_endpoint raises something other than ValueError: the entry has the
\* four required fields and its url is not a string (`url: 8080` in the YAML,
\* a url tagged "int" here), so url.startswith raises AttributeError
EndpointRaises(data) ==
    /\ data.id # ""
    /\ data.url # <<>>
    /\ data.secret # <<>>
    /\ data.events # <<>>
    /\ Head(data.url) = "int"

\* _parse_endpoint: the WebhookEndpoint built from a valid raw endpoint
_parse_endpoint(data, src) ==
    [id |-> data.id, url |-> data.url, secret |-> _resolve_secret(data.secret, src),
     events |-> data.events, enabled |-> data.enabled]

\* settings_data.get(key, default)
SettingOr(opt, default) == IF opt = None THEN default ELSE opt[1]

\* a bug: no CONFIG_PATH.exists() test, open() raises on a missing file
LoadRaises_OnMissing(src) ==
    \/ src.kind \in {"missing", "unreadable", "not_mapping"}
    \/ /\ src.kind = "ok"
       /\ \E i \in 1..Len(src.endpoints) : EndpointRaises(src.endpoints[i])

\* WebhookConfigLoader.load raises: open() fails on a file that exists
\* ("unreadable"), the YAML document is not a mapping ("not_mapping", .get
\* raises AttributeError), or an entry makes _parse_endpoint raise something
\* `except ValueError` does not catch. _config is not assigned then.
LoadRaises(src) ==
    \/ src.kind \in {"unreadable", "not_mapping"}
    \/ /\ src.kind = "ok"
       /\ \E i \in 1..Len(src.endpoints) : EndpointRaises(src.endpoints[i])

\* WebhookConfigLoader.load: the config a source yields when load returns
load(src) ==
    IF src.kind = "missing" THEN EmptyConfig
    ELSE IF src.kind = "malformed" THEN EmptyConfig
    ELSE LET Valid(data) == EndpointValid(data, src)
             valid == SelectSeq(src.endpoints, Valid)
         IN [endpoints |-> [i \in 1..Len(valid) |-> _parse_endpoint(valid[i], src)],
             settings |->
                [max_retries |-> SettingOr(src.settings.max_retries, DefaultMaxRetries),
                 retry_base_delay_seconds |->
                     SettingOr(src.settings.retry_base_delay_seconds, DefaultRetryBaseDelay),
                 delivery_timeout_seconds |->
                     SettingOr(src.settings.delivery_timeout_seconds, DefaultDeliveryTimeout)]]

\* a bug: the enabled flag is not looked at
EndpointsFor_IgnoreEnabled(cfg, event_type) ==
    LET Wanted(ep) == subscribes_to(ep, event_type)
    IN SelectSeq(cfg.endpoints, Wanted)

\* the endpoints of cfg that are enabled and subscribe to event_type, in order
EndpointsFor(cfg, event_type) ==
    LET Wanted(ep) == ep.enabled /\ subscribes_to(ep, event_type)
    IN SelectSeq(cfg.endpoints, Wanted)

----------------------------------------------------------------------------
(* event.py: WebhookEvent and its payload form *)

\* str(uuid) and uuid.UUID(str)
UuidToStr(u) == <<"uuid", u>>
StrToUuid(s) == s[2]

\* datetime.isoformat() and datetime.fromisoformat()
IsoFormat(ts) == <<"iso8601", ts>>
FromIsoFormat(s) == s[2]

\* Python values of an event's data: a str, an int, a list or a tuple, each
\* with its items as texts; a dict is the sequence of its items in insertion
\* order, a key being a str or an int
PyStr(s) == [type |-> "str", items |-> <<s>>]
PyInt(digits) == [type |-> "int", items |-> <<digits>>]
PyList(items) == [type |-> "list", items |-> items]
PyTuple(items) == [type |-> "tuple", items |-> items]
StrKey(k) == [type |-> "str", name |-> k]
IntKey(k) == [type |-> "int", name |-> k]
Item(key, value) == [key |-> key, value |-> value]

to_payload(event) ==
    [event_id |-> UuidToStr(event.event_id),
     event_type |-> event.event_type,
     timestamp |-> IsoFormat(event.timestamp),
     data |-> event.data]

from_payload(payload) ==
    [event_id |-> StrToUuid(payload.event_id),
     event_type |-> payload.event_type,
     timestamp |-> FromIsoFormat(payload.timestamp),
     data |-> payload.data]

\* json.dumps on a dict of data: a list and a tuple both become a JSON
\* array, every key becomes a JSON string
JsonEncode(data) ==
    [i \in 1..Len(data) |->
        Item([type |-> "string", name |-> data[i].key.name],
             [type |-> IF data[i].value.type \in {"list", "tuple"} THEN "array"
                       ELSE IF data[i].value.type = "int" THEN "number"
                       ELSE "string",
              items |-> data[i].value.items])]

\* json.loads on a JSON value: an array becomes a list
JsonDecodeValue(value) ==
    [type |-> IF value.type = "array" THEN "list"
              ELSE IF value.type = "number" THEN "int"
              ELSE "str",
     items |-> value.items]

\* json.loads on a JSON object: a key becomes a str, and of two members with
\* one name the dict keeps the place of the first and the value of the last
RECURSIVE JsonDecodeInto(_, _)
JsonDecodeInto(data, object) ==
    IF object = <<>> THEN data
    ELSE LET key == StrKey(Head(object).key.name)
             value == JsonDecodeValue(Head(object).value)
         IN JsonDecodeInto(IF \E i \in 1..Len(data) : data[i].key = key
                           THEN [i \in 1..Len(data) |->
                                    IF data[i].key = key THEN Item(key, value)
                                    ELSE data[i]]
                           ELSE Append(data, Item(key, value)),
                           Tail(object))

JsonDecode(object) == JsonDecodeInto(<<>>, object)

\* json.dumps(payload): the text of a JSON object
json_dumps(payload) ==
    [text |-> "object", value |-> [payload EXCEPT !.data = JsonEncode(@)]]

\* json.loads(entry) of a text that from_payload accepts
json_loads(entry) == [entry.value EXCEPT !.data = JsonDecode(@)]

\* what _process_next_event makes of a queue entry: "event" when json.loads
\* and from_payload go through; "rejected" when they raise JSONDecodeError
\* (not JSON), KeyError (a field is missing) or ValueError (event_id is not a
\* UUID string), which the method catches; "raises" for what it does not
\* catch (the document is a JSON array: TypeError; event_id is a number:
\* AttributeError). from_payload evaluates event_id first.
ParseOutcome(entry) ==
    IF entry.text = "invalid" THEN "rejected"
    ELSE IF entry.text = "array" THEN "raises"
    ELSE IF "event_id" \notin DOMAIN entry.value THEN "rejected"
    ELSE IF entry.value.event_id[1] = "int" THEN "raises"
    ELSE IF entry.value.event_id[1] # "uuid" THEN "rejected"
    ELSE IF {"event_type", "timestamp", "data"} \ DOMAIN entry.value # {}
    THEN "rejected"
    ELSE "event"

----------------------------------------------------------------------------
(* signer.py: WebhookSigner *)

SIGNATURE_PREFIX == "sha256="

\* the NUL character
NUL == "NUL"

DigitChars == <<"0", "1", "2", "3", "4", "5", "6", "7", "8", "9">>

\* str(n), f"{n}" for an int: its decimal digits, one chunk each
RECURSIVE str_int(_)
str_int(n) ==
    IF n < 0 THEN <<"-">> \o str_int(0 - n)
    ELSE IF n < 10 THEN <<DigitChars[n + 1]>>
    ELSE str_int(n \div 10) \o <<DigitChars[(n % 10) + 1]>>

\* The key HMAC works with: hmac pads a key shorter than the block of the
\* hash with NUL bytes, so NUL characters at the end of a key do not count.
\* (The secrets of the model are shorter than the 64-byte block of SHA-256.)
RECURSIVE HmacKey(_)
HmacKey(secret) ==
    IF secret # <<>> /\ secret[Len(secret)] = NUL
    THEN HmacKey(SubSeq(secret, 1, Len(secret) - 1))
    ELSE secret

\* hmac.new(key, message, hashlib.sha256).hexdigest(), with SHA-256 taken as
\* collision free: the digest tells the padded key and the message
HmacSha256(key, message) == [key |-> HmacKey(key), message |-> message]

\* a bug: the timestamp is left out of the signed message
sign_NoTimestamp(payload, secret, timestamp) ==
    [signature |-> [prefix |-> SIGNATURE_PREFIX,
                    hexdigest |-> HmacSha256(secret, payload)],
     timestamp |-> timestamp]

\* WebhookSigner.sign with a timestamp given: the message is the digits of the
\* timestamp, a dot and the payload, joined into one text
sign(payload, secret, timestamp) ==
    [signature |-> [prefix |-> SIGNATURE_PREFIX,
                    hexdigest |-> HmacSha256(secret,
                                             str_int(timestamp) \o <<".">> \o payload)],
     timestamp |-> timestamp]

\* WebhookSigner.verify
verify(payload, secret, timestamp, signature) ==
    sign(payload, secret, timestamp).signature = signature

\* a bug: the headers name the subscribed event type of the endpoint instead
\* of the type of the event
get_headers_Swapped(payload, secret, event_type, webhook_id, now) ==
    LET signed == sign(payload, secret, now)
    IN [Content_Type |-> "application/json",
        X_Webhook_Signature |-> signed.signature,
        X_Webhook_Timestamp |-> str_int(signed.timestamp),
        X_Webhook_Event |-> webhook_id,
        X_Webhook_ID |-> event_type]

\* WebhookSigner.get_headers; sign() without a timestamp takes the clock,
\* int(time.time()), which is `now` here
get_headers(payload, secret, event_type, webhook_id, now) ==
    LET signed == sign(payload, secret, now)
    IN [Content_Type |-> "application/json",
        X_Webhook_Signature |-> signed.signature,
        X_Webhook_Timestamp |-> str_int(signed.timestamp),
        X_Webhook_Event |-> event_type,
        X_Webhook_ID |-> webhook_id]

----------------------------------------------------------------------------
(* worker.py: DeliveryResult and one HTTP attempt *)

\* payload_dict["webhook_id"] = endpoint.id
WithWebhookId(payload_dict, id) ==
    [f \in DOMAIN payload_dict \cup {"webhook_id"} |->
        IF f = "webhook_id" THEN id ELSE payload_dict[f]]

\* _attempt_delivery, up to the POST: the request it sends. The JSON text of
\* the body is a text of one chunk, the document.
AttemptRequest(event, endpoint, now) ==
    LET payload_json == <<json_dumps(WithWebhookId(to_payload(event), endpoint.id))>>
    IN [url |-> endpoint.url,
        content |-> payload_json,
        headers |-> get_headers(payload_json, endpoint.secret, event.event_type,
                                endpoint.id, now)]

\* DeliveryResult(success=False): the dataclass defaults
DeliveryResult(success, http_status, error_message, latency_ms) ==
    [success |-> success, http_status |-> http_status,
     error_message |-> error_message, latency_ms |-> latency_ms,
     attempt_count |-> 1]

\* text[:500]; a text is modelled by its length
Truncate(len) == Min(len, ErrorMessageLimit)

\* _attempt_delivery, from the response on: r is what the POST produced, a
\* response with a status and a body, a timeout or another httpx.RequestError.
\* latency is the measured latency in ms.
_attempt_delivery(r, latency) ==
    IF r.kind = "response" THEN
        IF 200 <= r.status /\ r.status < 300
        THEN DeliveryResult(TRUE, Some(r.status), None, Some(latency))
        ELSE DeliveryResult(FALSE, Some(r.status),
                            IF r.text # 0 THEN Some(Truncate(r.text)) ELSE None,
                            Some(latency))
    ELSE IF r.kind = "timeout"
    THEN DeliveryResult(FALSE, None, Some(RequestTimeoutLen), None)
    ELSE DeliveryResult(FALSE, None, Some(Truncate(r.text)), None)

\* a bug: a 4xx is retried like any other failure
IsClientError_Never(result) == FALSE

\* `result.http_status and 400 <= result.http_status < 500`
IsClientError(result) ==
    /\ result.http_status # None
    /\ result.http_status[1] # 0
    /\ 400 <= result.http_status[1]
    /\ result.http_status[1] < 500

\* a bug: the attempt's result keeps the dataclass default attempt_count
WithAttemptCount_Default(result, attempt) == result

\* `result = delivery_result; result.attempt_count = attempt + 1`
WithAttemptCount(result, attempt) == [result EXCEPT !.attempt_count = attempt + 1]

\* a bug: the loop gives up on every response that is not a success
StopsRetrying_AnyStatus(result) == result.success \/ result.http_status # None

\* the retry loop's exit test after an attempt: `break` on success or on 4xx
StopsRetrying(result) == result.success \/ IsClientError(result)

\* range(max_retries + 1) has a value after `attempt`
HasNextAttempt(attempt, max_retries) == attempt + 1 < max_retries + 1

\* delay = base_delay * (2 ** (attempt - 1)), slept before attempt `attempt`
BackoffDelay(base_delay, attempt) == base_delay * Pow2(attempt - 1)

\* a bug: the row keeps the column default of the first attempt
DeliveryRow_FirstAttempt(event, endpoint, result) ==
    [event_id |-> event.event_id,
     event_type |-> event.event_type,
     endpoint_id |-> endpoint.id,
     endpoint_url |-> endpoint.url,
     status |-> IF result.success THEN "success" ELSE "failed",
     http_status |-> result.http_status,
     error_message |-> result.error_message,
     attempt_count |-> 1,
     latency_ms |-> result.latency_ms]

\* the WebhookDelivery row _log_delivery adds
DeliveryRow(event, endpoint, result) ==
    [event_id |-> event.event_id,
     event_type |-> event.event_type,
     endpoint_id |-> endpoint.id,
     endpoint_url |-> endpoint.url,
     status |-> IF result.success THEN "success" ELSE "failed",
     http_status |-> result.http_status,
     error_message |-> result.error_message,
     attempt_count |-> result.attempt_count,
     latency_ms |-> result.latency_ms]

----------------------------------------------------------------------------
(* The environment: configuration sources and what a POST can produce *)

EndpointA ==
    [id |-> "ep-a", url |-> <<"https://", "a.example/hook">>, secret |-> <<"secret-a">>,
     events |-> <<"user.created", "user.login">>, enabled |-> TRUE]

EndpointB ==
    [id |-> "ep-b", url |-> <<"https://", "b.example/hook">>, secret |-> <<"secret-b">>,
     events |-> <<"user.created">>, enabled |-> TRUE]

\* rejected by _parse_endpoint: not HTTPS
EndpointPlainHttp ==
    [id |-> "ep-http", url |-> <<"http://", "c.example/hook">>, secret |-> <<"secret-c">>,
     events |-> <<"user.created">>, enabled |-> TRUE]

\* loaded but never returned by get_endpoints_for_event
EndpointDisabled ==
    [id |-> "ep-off", url |-> <<"https://", "d.example/hook">>, secret |-> <<"secret-d">>,
     events |-> <<"user.created">>, enabled |-> FALSE]

\* rejected by _parse_endpoint: no events
EndpointNoEvents ==
    [id |-> "ep-none", url |-> <<"https://", "e.example/hook">>, secret |-> <<"secret-e">>,
     events |-> <<>>, enabled |-> TRUE]

\* rejected by _parse_endpoint: no secret
EndpointNoSecret ==
    [id |-> "ep-open", url |-> <<"https://", "f.example/hook">>, secret |-> <<>>,
     events |-> <<"user.created">>, enabled |-> TRUE]

\* `url: 8080`: _parse_endpoint raises AttributeError
EndpointUrlNotString ==
    [id |-> "ep-int", url |-> <<"int", "8080">>, secret |-> <<"secret-g">>,
     events |-> <<"user.created">>, enabled |-> TRUE]

\* a second entry with the id of EndpointA and another url
EndpointADuplicate ==
    [id |-> "ep-a", url |-> <<"https://", "a2.example/hook">>, secret |-> <<"secret-a2">>,
     events |-> <<"user.created">>, enabled |-> TRUE]

\* a config/webhooks.yaml that is absent, is not YAML, cannot be opened or
\* holds a YAML list
\* a deployment without secret files and without the variable in its
\* environment
NoSecretFiles == [hook_secret |-> [state |-> "absent", text |-> <<>>]]
NoEnv == [HOOK_SECRET |-> <<>>]

BadSource(kind) ==
    [kind |-> kind, endpoints |-> <<>>,
     settings |-> [max_retries |-> None, retry_base_delay_seconds |-> None,
                   delivery_timeout_seconds |-> None],
     secrets |-> NoSecretFiles, env |-> NoEnv]

\* a config/webhooks.yaml with the settings max_retries and
\* retry_base_delay_seconds given and delivery_timeout_seconds left out
Source(endpoints, max_retries, base_delay) ==
    [kind |-> "ok", endpoints |-> endpoints,
     settings |-> [max_retries |-> Some(max_retries),
                   retry_base_delay_seconds |-> Some(base_delay),
                   delivery_timeout_seconds |-> None],
     secrets |-> NoSecretFiles, env |-> NoEnv]

Response(status, text) == [kind |-> "response", status |-> status, text |-> text]
Timeout == [kind |-> "timeout", status |-> 0, text |-> 0]
RequestError(text) == [kind |-> "request_error", status |-> 0, text |-> text]
\* an exception _attempt_delivery does not catch (httpx.InvalidURL, TypeError ...)
OtherException == [kind |-> "exception", status |-> 0, text |-> 0]

\* what the remote end of a POST can do in the delivery scenario
AllResponses ==
    {Response(200, 2), Response(300, 0), Response(400, 11), Response(499, 0),
     Response(500, 21), Timeout, RequestError(9), OtherException}

\* queue entries that no emit() call wrote
NotJsonEntry == [text |-> "invalid", value |-> [raw |-> "{not json"]]
JsonArrayEntry == [text |-> "array", value |-> [raw |-> "[1, 2]"]]
MissingFieldEntry ==
    [text |-> "object",
     value |-> [event_id |-> UuidToStr(0), event_type |-> "user.created"]]
BadUuidEntry ==
    [text |-> "object",
     value |-> [event_id |-> <<"str", 0>>, event_type |-> "user.created",
                timestamp |-> IsoFormat(0), data |-> <<>>]]
NumericIdEntry ==
    [text |-> "object",
     value |-> [event_id |-> <<"int", 0>>, event_type |-> "user.created",
                timestamp |-> IsoFormat(0), data |-> <<>>]]

MalformedEntries ==
    {NotJsonEntry, JsonArrayEntry, MissingFieldEntry, BadUuidEntry, NumericIdEntry}

\* what it can do in the lifecycle scenarios
FewResponses == {Response(200, 2), Response(503, 0)}

\* the latency time.time() measures
Latency == 7

----------------------------------------------------------------------------
(* State *)

VARIABLES
    source,               \* what config/webhooks.yaml holds, with the secret
                          \* files and the environment variables
    TESTING,              \* os.environ TESTING == "1"
    _config,              \* WebhookConfigLoader._config
    queue,                \* the Valkey list webhook:events, head first
    emitting,             \* events of emit() calls suspended in rpush
    created,              \* events created so far: the next uuid and timestamp
    _running,             \* WebhookWorker._running
    _task,                \* WebhookWorker._task
    _db_session_factory,  \* TRUE iff the worker was given a session factory
    tasks,                \* the _process_loop tasks start() created
    stopping,             \* stopping[t]: stop() calls suspended in `await self._task` on t
    stops,                \* stop() calls made so far
    ready,                \* the event loop's ready queue, as far as create_task and
                          \* a done task's waiters fill it (FIFO)
    deliveries,           \* the webhook_deliveries table, in insertion order
    returned,             \* the _deliver_to_endpoint calls that returned in the last step
    answer,               \* the emit(), reload(), sign() or verify() call that
                          \* ended in the last step
    web,                  \* the user tables of the database and the request
                          \* handler in progress
    h                     \* history of the run, read by the properties only

vars == <<source, TESTING, _config, queue, emitting, created, _running, _task,
          _db_session_factory, tasks, stopping, stops, ready, deliveries, returned, answer,
          web, h>>

TaskIds == 1..MaxTasks
\* every scenario's event numbers
EventIds == 1..(MaxEvents + DeliveryEvents + LogEvents + OrderEvents + EmitEvents
                + ReloadEvents + QueueEvents + LoadEvents
                + PayloadEvents)

\* a task that holds no event
Idle(pc) ==
    [pc |-> pc, cancel |-> FALSE, event |-> None, endpoints |-> <<>>, idx |-> 0,
     attempt |-> 0, result |-> None, max_retries |-> 0, base_delay |-> 0,
     timeout |-> 0, statuses |-> <<>>, sleeps |-> <<>>]

\* WebhookConfigLoader.get_config raises: nothing is loaded and load() raises
ConfigRaises == _config = None /\ LoadRaises(source)

\* WebhookConfigLoader.get_config when it returns: loads on first use
get_config == IF _config = None THEN load(source) ELSE _config[1]

\* WebhookConfigLoader.get_endpoints_for_event
get_endpoints_for_event(event_type) == EndpointsFor(get_config, event_type)

\* WebhookWorker.__init__ and the module state at import, for the sources
\* and the session factories a scenario draws from
\* the users of the model
UserIds == 1..MaxUsers

\* an empty database, no request in progress
NoRequests ==
    [users |-> {}, accounts |-> {}, profile |-> [u \in UserIds |-> "none"],
     pc |-> "idle", user |-> 0, provider |-> "none",
     committed |-> {}, calls |-> {}]

InitBut(sources, factories) ==
    /\ source \in sources
    /\ TESTING \in BOOLEAN
    /\ _config = None
    /\ queue = <<>>
    /\ emitting = {}
    /\ created = 0
    /\ _running = FALSE
    /\ _task = None
    /\ _db_session_factory \in factories
    /\ tasks = [t \in TaskIds |-> Idle("none")]
    /\ stopping = [t \in TaskIds |-> 0]
    /\ stops = 0
    /\ ready = <<>>
    /\ deliveries = <<>>
    /\ returned = <<>>
    /\ web = NoRequests
    /\ h = [popped |-> <<>>, pushed |-> <<>>, began |-> <<>>, terminal |-> {},
            snapshot |-> [e \in EventIds |-> <<>>],
            ended |-> [e \in EventIds |-> "no"],
            emitBefore |-> [e \in EventIds |-> {}],
            found |-> [e \in EventIds |-> FALSE],
            pop |-> [e \in EventIds |-> None],
            dropped |-> {},
            created |-> [e \in EventIds |-> None],
            user_id |-> [e \in EventIds |-> None]]

InitWith(sources, factories) == InitBut(sources, factories) /\ answer = None

----------------------------------------------------------------------------
(* config.py and router.py: the configuration source and reload() *)

\* the operator rewrites config/webhooks.yaml (or removes it, or its mode),
\* the secret files and the environment of the deployment
EditSource(src) ==
    /\ src # source
    /\ source' = src
    /\ returned' = <<>>
    /\ answer' = None
    /\ UNCHANGED <<web, TESTING, _config, queue, emitting, created, _running, _task,
                   _db_session_factory, tasks, stopping, stops, ready, deliveries, h>>

\* what a reload() call that ended gave its caller: raised tells whether it
\* raised; kind is the source's kind, before and after are _config around it
ReloadAnswer(raised, before, after) ==
    Some([op |-> "reload", raised |-> raised, kind |-> source.kind,
          before |-> before, after |-> after])

\* WebhookConfigLoader.reload(), as POST /webhooks/reload calls it: load()
\* runs without suspending and assigns _config unless it raises
Reload ==
    /\ _config' = IF LoadRaises(source) THEN _config ELSE Some(load(source))
    /\ answer' = ReloadAnswer(LoadRaises(source), _config, _config')
    /\ returned' = <<>>
    /\ UNCHANGED <<web, source, TESTING, queue, emitting, created, _running, _task,
                   _db_session_factory, tasks, stopping, stops, ready, deliveries, h>>

----------------------------------------------------------------------------
(* emitter.py *)

\* the config in force has an enabled endpoint whose events list names
\* event_type (FALSE when no config can be loaded)
HasSubscriber(event_type) ==
    /\ ~ConfigRaises
    /\ \E i \in 1..Len(get_config.endpoints) :
           /\ get_config.endpoints[i].enabled
           /\ \E k \in 1..Len(get_config.endpoints[i].events) :
                  get_config.endpoints[i].events[k] = event_type

\* what an emit() call that ended gave its caller: result is "event", "none"
\* or "raised", event the event it returned; found is HasSubscriber when the
\* call began; pushes counts the entries the call added to the queue
\* q_after, and at_tail tells that they are `entry`, once, at the tail
EmitAnswer(event_type, found, result, q_after, entry, event) ==
    Some([op |-> "emit", event_type |-> event_type, found |-> found,
          result |-> result, pushes |-> Len(q_after) - Len(queue),
          at_tail |-> q_after = queue \/ q_after = Append(queue, entry),
          event |-> event])

\* the data of the model's plain emit() calls
PlainData == <<Item(StrKey("user_id"), PyStr("user-1"))>>

\* dict[key] = value
SetItem(data, key, value) ==
    IF \E i \in 1..Len(data) : data[i].key = key
    THEN [i \in 1..Len(data) |->
             IF data[i].key = key THEN Item(key, value) ELSE data[i]]
    ELSE Append(data, Item(key, value))

\* data.update(extra)
RECURSIVE DictUpdate(_, _)
DictUpdate(data, extra) ==
    IF extra = <<>> THEN data
    ELSE DictUpdate(SetItem(data, Head(extra).key, Head(extra).value), Tail(extra))

\* str(user_id) for the model's user ids 1, 2, 3
str_uuid(user_id) ==
    <<"00000000-0000-4000-8000-000000000001",
      "00000000-0000-4000-8000-000000000002",
      "00000000-0000-4000-8000-000000000003">>[user_id]

\* emit_user_event: the data it hands to emit()
UserEventData(user_id, extra_data) ==
    LET data == <<Item(StrKey("user_id"), PyStr(str_uuid(user_id)))>>
    IN IF extra_data # None /\ extra_data[1] # <<>>
       THEN DictUpdate(data, extra_data[1])
       ELSE data

\* emit(event_type, data), first half: the subscription check passes, the
\* event is created and serialized, and the call suspends in rpush. e is the
\* event's number; user is the user_id of the emit_user_event call that made
\* the call (None: emit() was called directly).
EmitCallStep(e, event_type, data, user) ==
    /\ e = created + 1
    /\ ~TESTING
    /\ ~ConfigRaises
    /\ get_endpoints_for_event(event_type) # <<>>
    /\ created' = e
    /\ emitting' = emitting \cup
           {[event_id |-> e, event_type |-> event_type, timestamp |-> e,
             data |-> data]}
    /\ _config' = Some(get_config)
    /\ h' = [h EXCEPT !.emitBefore[e] = Range(h.pushed),
                      !.found[e] = HasSubscriber(event_type),
                      !.created[e] = Some([event_id |-> e, event_type |-> event_type,
                                           timestamp |-> e, data |-> data]),
                      !.user_id[e] = user]
    /\ returned' = <<>>
    /\ answer' = None
    /\ UNCHANGED <<source, TESTING, queue, _running, _task, _db_session_factory,
                   tasks, stopping, stops, ready, deliveries>>

\* the same, called from outside the request handlers of the model
EmitCall(e, event_type, data, user) ==
    EmitCallStep(e, event_type, data, user) /\ UNCHANGED web

\* an emit() call with the plain data
EmitBegin(e, event_type) == EmitCall(e, event_type, PlainData, None)

\* an emit_user_event() call that gets as far as the push
EmitUserEvent(e, event_type, user_id, extra_data) ==
    EmitCall(e, event_type, UserEventData(user_id, extra_data), Some(user_id))

\* emit() returns None: test environment, or no enabled endpoint subscribes
EmitSkipStep(event_type) ==
    /\ TESTING \/ (~ConfigRaises /\ get_endpoints_for_event(event_type) = <<>>)
    /\ _config' = IF TESTING THEN _config ELSE Some(get_config)
    /\ returned' = <<>>
    /\ answer' = EmitAnswer(event_type, HasSubscriber(event_type), "none", queue, None, None)
    /\ UNCHANGED <<source, TESTING, queue, emitting, created, _running, _task,
                   _db_session_factory, tasks, stopping, stops, ready, deliveries, h>>

\* the same, called from outside the request handlers of the model
EmitSkip(event_type) == EmitSkipStep(event_type) /\ UNCHANGED web

\* emit() raises: get_endpoints_for_event is called outside the try block
\* and load() raises
EmitRaise(event_type) ==
    /\ ~TESTING
    /\ ConfigRaises
    /\ returned' = <<>>
    /\ answer' = EmitAnswer(event_type, FALSE, "raised", queue, None, None)
    /\ UNCHANGED <<web, source, TESTING, _config, queue, emitting, created, _running, _task,
                   _db_session_factory, tasks, stopping, stops, ready, deliveries, h>>

\* emit() returns None before it suspends: json.dumps raises TypeError on the
\* data (or get_valkey raises), inside the try block
EmitUnserializable(event_type) ==
    /\ ~TESTING
    /\ ~ConfigRaises
    /\ get_endpoints_for_event(event_type) # <<>>
    /\ _config' = Some(get_config)
    /\ returned' = <<>>
    /\ answer' = EmitAnswer(event_type, HasSubscriber(event_type), "none", queue, None, None)
    /\ UNCHANGED <<web, source, TESTING, queue, emitting, created, _running, _task,
                   _db_session_factory, tasks, stopping, stops, ready, deliveries, h>>

\* a bug: the entry is pushed twice
rpush_Twice(q, entry) == Append(Append(q, entry), entry)

\* a bug: LPUSH, the entry goes to the head of the list
rpush_AtHead(q, entry) == <<entry>> \o q

\* client.rpush(WEBHOOK_QUEUE_KEY, entry): the entry goes to the tail
rpush(q, entry) == Append(q, entry)

\* emit(), second half: rpush completes and emit() returns the event
EmitPush(event) ==
    /\ event \in emitting
    /\ emitting' = emitting \ {event}
    /\ queue' = rpush(queue, json_dumps(to_payload(event)))
    /\ h' = [h EXCEPT !.pushed = Append(@, event.event_id)]
    /\ returned' = <<>>
    /\ answer' = EmitAnswer(event.event_type, h.found[event.event_id], "event", queue',
                            json_dumps(to_payload(event)), Some(event))
    /\ UNCHANGED <<web, source, TESTING, _config, created, _running, _task,
                   _db_session_factory, tasks, stopping, stops, ready, deliveries>>

\* emit(), second half: rpush raises, emit() logs the error and returns
\* None. The entry may have reached the list all the same (landed: the
\* connection broke after the server ran the command).
EmitPushFail(event, landed) ==
    /\ event \in emitting
    /\ emitting' = emitting \ {event}
    /\ queue' = IF landed THEN rpush(queue, json_dumps(to_payload(event))) ELSE queue
    /\ h' = IF landed THEN [h EXCEPT !.pushed = Append(@, event.event_id)] ELSE h
    /\ returned' = <<>>
    /\ answer' = EmitAnswer(event.event_type, h.found[event.event_id], "none", queue',
                            json_dumps(to_payload(event)), None)
    /\ UNCHANGED <<web, source, TESTING, _config, created, _running, _task,
                   _db_session_factory, tasks, stopping, stops, ready, deliveries>>

\* another client of the Valkey server pushes an entry onto webhook:events
ForeignPush(entry) ==
    /\ Len(queue) < MaxQueueLen
    /\ queue' = rpush(queue, entry)
    /\ returned' = <<>>
    /\ answer' = None
    /\ UNCHANGED <<web, source, TESTING, _config, emitting, created, _running, _task,
                   _db_session_factory, tasks, stopping, stops, ready, deliveries, h>>

----------------------------------------------------------------------------
(* auth/router.py, accounts/router.py, users/router.py: the request        *)
(* handlers that change users, one request at a time. A provider identity  *)
(* (provider, y) is person y's account at the provider; person y's e-mail  *)
(* address is Email(y), and the user created for person y is user y.       *)

Providers == {"google", "discord"}

ProviderList == <<"google", "discord">>

Email(y) == <<"p1@example.com", "p2@example.com", "p3@example.com">>[y]

\* an OAuthAccount row; info tells that the provider's display name is stored
Account(u, p, y, info) == [user |-> u, provider |-> p, identity |-> y, info |-> info]

AccountsOf(u) == {a \in web.accounts : a.user = u}

\* a lifecycle action committed for a user, or an emit_user_event call: the
\* event type and the user id
Act(event_type, u) == [event_type |-> event_type, user_id |-> u]

\* a new request starts when the one before it has returned
RequestStarts == web.pc = "idle" /\ emitting = {}

\* the handler calls emit_user_event(event_type, user_id, extra_data), which
\* runs until emit() suspends in its push or returns
CallEmitUserEvent(event_type, user_id, extra_data) ==
    \/ \E e \in 1..CallerEvents :
           EmitCallStep(e, event_type, UserEventData(user_id, Some(extra_data)),
                        Some(user_id))
    \/ EmitSkipStep(event_type)

\* the handler calls nothing of the emitter
NoCall ==
    UNCHANGED <<source, TESTING, _config, queue, emitting, created, _running, _task,
                _db_session_factory, tasks, stopping, stops, ready, deliveries,
                returned, answer, h>>

\* google_callback, discord_callback, ...: _find_or_create_user, and when it
\* emits nothing the rest of the handler up to emit_user_event("user.login")
LoginCallback(p, y) ==
    /\ RequestStarts
    /\ IF \E a \in web.accounts : a.provider = p /\ a.identity = y
       THEN \* the OAuth account exists: its tokens and provider info are
            \* updated, nothing is emitted; then the login itself
            LET a == CHOOSE a \in web.accounts : a.provider = p /\ a.identity = y
            IN /\ web' = [web EXCEPT
                             !.accounts = (@ \ {a}) \cup {[a EXCEPT !.info = TRUE]},
                             !.committed = {Act("user.login", a.user)},
                             !.calls = {Act("user.login", a.user)}]
               /\ CallEmitUserEvent("user.login", a.user,
                                    <<Item(StrKey("provider"), PyStr(p))>>)
       ELSE IF y \in web.users
       THEN \* a user with the same e-mail address exists: the account is
            \* linked to it
            /\ web' = [web EXCEPT
                          !.accounts = @ \cup {Account(y, p, y, TRUE)},
                          !.profile[y] = IF @ = "none" THEN "provider" ELSE @,
                          !.pc = "login", !.user = y, !.provider = p,
                          !.committed = {Act("user.oauth_linked", y)},
                          !.calls = {Act("user.oauth_linked", y)}]
            /\ CallEmitUserEvent("user.oauth_linked", y,
                                 <<Item(StrKey("provider"), PyStr(p))>>)
       ELSE \* a new user with profile, e-mail address and account
            /\ web' = [web EXCEPT
                          !.users = @ \cup {y},
                          !.accounts = @ \cup {Account(y, p, y, TRUE)},
                          !.profile[y] = "provider",
                          !.pc = "login", !.user = y, !.provider = p,
                          !.committed = {Act("user.created", y)},
                          !.calls = {Act("user.created", y)}]
            /\ CallEmitUserEvent("user.created", y,
                                 <<Item(StrKey("provider"), PyStr(p)),
                                   Item(StrKey("email"), PyStr(Email(y)))>>)

\* the callback after _find_or_create_user has returned: the tokens are
\* created and emit_user_event("user.login") is called
LoginResume ==
    /\ web.pc = "login"
    /\ emitting = {}
    /\ web' = [web EXCEPT !.pc = "idle", !.user = 0, !.provider = "none",
                          !.committed = @ \cup {Act("user.login", web.user)},
                          !.calls = @ \cup {Act("user.login", web.user)}]
    /\ CallEmitUserEvent("user.login", web.user,
                         <<Item(StrKey("provider"), PyStr(web.provider))>>)

\* google_link_callback, discord_link_callback of user u for their own
\* identity at p, which no user has linked yet
LinkCallback(u, p) ==
    /\ RequestStarts
    /\ u \in web.users
    /\ ~\E a \in web.accounts : a.provider = p /\ a.identity = u
    /\ web' = [web EXCEPT !.accounts = @ \cup {Account(u, p, u, FALSE)},
                          !.committed = {Act("user.oauth_linked", u)},
                          !.calls = {}]
    /\ NoCall

\* unlink_account of user u for provider p: refused for the last account
\* (400) and without an account at p (404); scalar_one_or_none raises when
\* the user has two accounts at p
UnlinkAccount(u, p) ==
    /\ RequestStarts
    /\ u \in web.users
    /\ Cardinality(AccountsOf(u)) > 1
    /\ Cardinality({a \in AccountsOf(u) : a.provider = p}) = 1
    /\ web' = [web EXCEPT !.accounts = {a \in @ : ~(a.user = u /\ a.provider = p)},
                          !.committed = {Act("user.oauth_unlinked", u)},
                          !.calls = {}]
    /\ NoCall

\* update_profile of user u with the display name `name`
UpdateProfile(u, name) ==
    /\ RequestStarts
    /\ u \in web.users
    /\ IF web.profile[u] # name
       THEN /\ web' = [web EXCEPT !.profile[u] = name,
                                  !.committed = {Act("user.updated", u)},
                                  !.calls = {Act("user.updated", u)}]
            /\ CallEmitUserEvent("user.updated", u,
                                 <<Item(StrKey("changes"), PyList(<<"display_name">>))>>)
       ELSE /\ web' = [web EXCEPT !.committed = {}, !.calls = {}]
            /\ NoCall

\* sync_profile_from_provider of user u for provider p, whose account holds
\* the provider's display name
SyncProfile(u, p) ==
    /\ RequestStarts
    /\ u \in web.users
    /\ Cardinality({a \in AccountsOf(u) : a.provider = p}) = 1
    /\ \A a \in AccountsOf(u) : a.provider = p => a.info
    /\ web' = [web EXCEPT !.profile[u] = "provider",
                          !.committed = IF web.profile[u] # "provider"
                                        THEN {Act("user.updated", u)} ELSE {},
                          !.calls = {}]
    /\ NoCall

\* delete_account of user u, up to emit_user_event("user.deleted"), which it
\* calls before it deletes
DeleteAccount(u) ==
    /\ RequestStarts
    /\ u \in web.users
    /\ web' = [web EXCEPT !.pc = "delete", !.user = u,
                          !.committed = {},
                          !.calls = {Act("user.deleted", u)}]
    /\ CallEmitUserEvent("user.deleted", u,
                         <<Item(StrKey("email"), PyStr(Email(u))),
                           Item(StrKey("oauth_providers"),
                                PyList(SelectSeq(ProviderList,
                                    LAMBDA p : \E a \in AccountsOf(u) : a.provider = p)))>>)

\* delete_account, the rest: the user row goes, and with it its profile and
\* accounts
DeleteCommit ==
    /\ web.pc = "delete"
    /\ emitting = {}
    /\ web' = [web EXCEPT !.pc = "idle", !.user = 0,
                          !.users = @ \ {web.user},
                          !.accounts = {a \in @ : a.user # web.user},
                          !.profile[web.user] = "none",
                          !.committed = @ \cup {Act("user.deleted", web.user)}]
    /\ NoCall

\* delete_account, the rest, when db.delete or db.commit raises: the
\* transaction is rolled back and the request fails; the user stays
DeleteCommitFails ==
    /\ web.pc = "delete"
    /\ emitting = {}
    /\ web' = [web EXCEPT !.pc = "idle", !.user = 0]
    /\ NoCall

----------------------------------------------------------------------------
(* worker.py: one _process_loop task between two suspension points *)

\* `while self._running:` at the top of _process_loop, then the blpop
LoopTop == IF _running THEN Idle("blpop") ELSE Idle("done")

\* what a _deliver_to_endpoint call that returned looked like
Completion(tk, log) ==
    [event_id |-> tk.event[1].event_id,
     endpoint_id |-> tk.endpoints[tk.idx].id,
     result |-> tk.result,
     statuses |-> tk.statuses,
     sleeps |-> tk.sleeps,
     max_retries |-> tk.max_retries,
     base_delay |-> tk.base_delay,
     log |-> log]

\* _process_next_event from `for endpoint in endpoints` on, for the endpoint
\* tk.idx, up to the next suspension point: DeliverFrom starts
\* _deliver_to_endpoint, Finish is its code after the retry loop. acc collects
\* the calls that return on the way.
RECURSIVE DeliverFrom(_, _)
RECURSIVE Finish(_, _)
DeliverFrom(tk, acc) ==
    IF tk.idx > Len(tk.endpoints)
    THEN [task |-> LoopTop, returned |-> acc, over |-> TRUE]
    ELSE LET st == get_config.settings
             fresh == [tk EXCEPT !.attempt = 0,
                                 !.result = DeliveryResult(FALSE, None, None, None),
                                 !.max_retries = st.max_retries,
                                 !.base_delay = st.retry_base_delay_seconds,
                                 !.timeout = st.delivery_timeout_seconds,
                                 !.statuses = <<>>,
                                 !.sleeps = <<>>]
         IN IF 0 < st.max_retries + 1
            THEN [task |-> [fresh EXCEPT !.pc = "post"], returned |-> acc, over |-> FALSE]
            ELSE Finish(fresh, acc)

Finish(tk, acc) ==
    IF _db_session_factory
    THEN [task |-> [tk EXCEPT !.pc = "log"], returned |-> acc, over |-> FALSE]
    ELSE DeliverFrom([tk EXCEPT !.idx = @ + 1],
                     Append(acc, Completion(tk, "no_factory")))

\* a bug: the retry loop reads the settings in force after every attempt
AfterAttempt_Rereads(tk, r) ==
    LET st == get_config.settings
        res == WithAttemptCount(_attempt_delivery(r, Latency), tk.attempt)
        seen == [tk EXCEPT !.result = res, !.statuses = Append(@, res.http_status)]
    IN IF StopsRetrying(res) THEN Finish(seen, <<>>)
       ELSE IF HasNextAttempt(tk.attempt, st.max_retries)
       THEN [task |-> [seen EXCEPT !.pc = "sleep",
                                   !.attempt = @ + 1,
                                   !.result = WithAttemptCount(res, tk.attempt + 1),
                                   !.sleeps = Append(@, BackoffDelay(
                                                  st.retry_base_delay_seconds,
                                                  tk.attempt + 1))],
             returned |-> <<>>, over |-> FALSE]
       ELSE Finish(seen, <<>>)

\* the retry loop of _deliver_to_endpoint after the attempt `tk.attempt` gave r
AfterAttempt(tk, r) ==
    LET res == WithAttemptCount(_attempt_delivery(r, Latency), tk.attempt)
        seen == [tk EXCEPT !.result = res, !.statuses = Append(@, res.http_status)]
    IN IF StopsRetrying(res) THEN Finish(seen, <<>>)
       ELSE IF HasNextAttempt(tk.attempt, tk.max_retries)
       THEN [task |-> [seen EXCEPT !.pc = "sleep",
                                   !.attempt = @ + 1,
                                   !.result = WithAttemptCount(res, tk.attempt + 1),
                                   !.sleeps = Append(@, BackoffDelay(tk.base_delay,
                                                                     tk.attempt + 1))],
             returned |-> <<>>, over |-> FALSE]
       ELSE Finish(seen, <<>>)

\* the history after a step of a task that held `event` (None: it popped
\* none) and ends as `out`
Hist(event, out, how) ==
    LET tk == out.task
        pairs == {<<out.returned[i].event_id, out.returned[i].endpoint_id>> :
                      i \in 1..Len(out.returned)}
        atLog == IF tk.pc = "log"
                 THEN {<<tk.event[1].event_id, tk.endpoints[tk.idx].id>>} ELSE {}
        first == IF tk.pc = "post" /\ tk.attempt = 0
                 THEN <<(<<tk.event[1].event_id, tk.endpoints[tk.idx].id>>)>> ELSE <<>>
    IN [h EXCEPT !.terminal = @ \cup pairs \cup atLog,
                 !.began = @ \o first,
                 !.ended = IF event # None /\ out.over
                           THEN [@ EXCEPT ![event[1].event_id] = how] ELSE @]

\* the step `kind` of task t is the next one the event loop's queue runs
NextReady(kind, t) == ready # <<>> /\ Head(ready) = [kind |-> kind, task |-> t]

\* the wakeups of the stop() calls that await task t, queued when t is done
Wakeups(t) == [i \in 1..stopping[t] |-> [kind |-> "resume", task |-> t]]

\* the task's first step after create_task
TaskFirstRun(t) ==
    /\ tasks[t].pc = "created"
    /\ ~tasks[t].cancel
    /\ NextReady("first", t)
    /\ ready' = Tail(ready)
    /\ tasks' = [tasks EXCEPT ![t] = LoopTop]
    /\ returned' = <<>>
    /\ answer' = None
    /\ UNCHANGED <<web, source, TESTING, _config, queue, emitting, created, _running,
                   _task, _db_session_factory, stopping, stops, deliveries, h>>

\* blpop times out on the empty queue: _process_next_event returns
BlpopTimeout(t) ==
    /\ tasks[t].pc = "blpop"
    /\ ~tasks[t].cancel
    /\ queue = <<>>
    /\ tasks' = [tasks EXCEPT ![t] = LoopTop]
    /\ returned' = <<>>
    /\ answer' = None
    /\ UNCHANGED <<web, source, TESTING, _config, queue, emitting, created, _running,
                   _task, _db_session_factory, stopping, stops, ready, deliveries, h>>

\* a bug: an exception in _process_next_event ends the loop
OnLoopException_Crash == Idle("done")

\* _process_loop's `except Exception`: the error is logged and the task
\* suspends in sleep(1)
OnLoopException == Idle("errsleep")

\* blpop returns the head of the queue. An entry the method rejects is logged
\* and dropped; one that makes it raise sends the loop to its except handler,
\* and so does an endpoint lookup that raises. Else the event's endpoints are
\* looked up and the delivery to the first one starts.
BlpopReturn(t) ==
    /\ tasks[t].pc = "blpop"
    /\ ~tasks[t].cancel
    /\ queue # <<>>
    /\ queue' = Tail(queue)
    /\ answer' = None
    /\ IF ParseOutcome(Head(queue)) # "event"
       THEN /\ tasks' = [tasks EXCEPT ![t] =
                            IF ParseOutcome(Head(queue)) = "rejected"
                            THEN LoopTop ELSE OnLoopException]
            /\ returned' = <<>>
            /\ h' = [h EXCEPT !.dropped = @ \cup {ParseOutcome(Head(queue))}]
            /\ UNCHANGED _config
       ELSE LET event == from_payload(json_loads(Head(queue)))
                endpoints == IF ConfigRaises THEN <<>>
                             ELSE get_endpoints_for_event(event.event_type)
                out == IF ConfigRaises
                       THEN [task |-> OnLoopException, returned |-> <<>>, over |-> TRUE]
                       ELSE IF endpoints = <<>>
                       THEN [task |-> LoopTop, returned |-> <<>>, over |-> TRUE]
                       ELSE DeliverFrom([Idle("blpop") EXCEPT !.event = Some(event),
                                                              !.endpoints = endpoints,
                                                              !.idx = 1], <<>>)
                popped == [h EXCEPT !.popped = Append(@, event.event_id),
                                    !.snapshot[event.event_id] =
                                        [i \in 1..Len(endpoints) |-> endpoints[i].id],
                                    !.pop[event.event_id] =
                                        IF ConfigRaises THEN None
                                        ELSE Some([config |-> get_config,
                                                   event_type |-> event.event_type])]
            IN /\ tasks' = [tasks EXCEPT ![t] = out.task]
               /\ returned' = out.returned
               /\ h' = [Hist(Some(event), out,
                             IF ConfigRaises THEN "raised" ELSE "returned") EXCEPT
                            !.popped = popped.popped, !.snapshot = popped.snapshot,
                            !.pop = popped.pop]
               /\ _config' = IF ConfigRaises THEN _config ELSE Some(get_config)
    /\ UNCHANGED <<web, source, TESTING, emitting, created, _running, _task,
                   _db_session_factory, stopping, stops, ready, deliveries>>

\* the POST of the current attempt ends with r
PostReturn(t, r) ==
    /\ tasks[t].pc = "post"
    /\ ~tasks[t].cancel
    /\ LET tk == tasks[t]
           out == IF r.kind = "exception"
                  THEN [task |-> OnLoopException, returned |-> <<>>, over |-> TRUE]
                  ELSE AfterAttempt(tk, r)
       IN /\ tasks' = [tasks EXCEPT ![t] = out.task]
          /\ returned' = out.returned
          /\ answer' = None
          /\ h' = Hist(tk.event, out,
                       IF r.kind = "exception" THEN "raised" ELSE "returned")
    /\ UNCHANGED <<web, source, TESTING, _config, queue, emitting, created, _running,
                   _task, _db_session_factory, stopping, stops, ready, deliveries>>

\* the backoff sleep ends and the next attempt's POST starts
SleepReturn(t) ==
    /\ tasks[t].pc = "sleep"
    /\ ~tasks[t].cancel
    /\ tasks' = [tasks EXCEPT ![t].pc = "post"]
    /\ returned' = <<>>
    /\ answer' = None
    /\ UNCHANGED <<web, source, TESTING, _config, queue, emitting, created, _running,
                   _task, _db_session_factory, stopping, stops, ready, deliveries, h>>

\* a bug: _log_delivery lets the exception of a failed write out
AfterLog_Raises(tk, ok) ==
    IF ok THEN DeliverFrom([tk EXCEPT !.idx = @ + 1], <<Completion(tk, "written")>>)
    ELSE [task |-> OnLoopException, returned |-> <<>>, over |-> TRUE]

\* _deliver_to_endpoint after _log_delivery returned, the row written (ok) or
\* the exception of the write logged by its `except Exception`: the result is
\* returned and the `for endpoint in endpoints` loop goes on
AfterLog(tk, ok) ==
    DeliverFrom([tk EXCEPT !.idx = @ + 1],
                <<Completion(tk, IF ok THEN "written" ELSE "failed")>>)

\* _log_delivery's commit ends: the row is in the table (ok) or the exception
\* is logged and swallowed; _deliver_to_endpoint returns, the next endpoint's
\* delivery starts
LogReturn(t, ok) ==
    /\ tasks[t].pc = "log"
    /\ ~tasks[t].cancel
    /\ LET tk == tasks[t]
           out == AfterLog(tk, ok)
       IN /\ tasks' = [tasks EXCEPT ![t] = out.task]
          /\ returned' = out.returned
          /\ answer' = None
          /\ h' = Hist(tk.event, out, "returned")
          /\ deliveries' = IF ok
                           THEN Append(deliveries,
                                       DeliveryRow(tk.event[1], tk.endpoints[tk.idx],
                                                   tk.result))
                           ELSE deliveries
    /\ UNCHANGED <<web, source, TESTING, _config, queue, emitting, created, _running,
                   _task, _db_session_factory, stopping, stops, ready>>

\* the sleep(1) after an unexpected exception ends
ErrSleepReturn(t) ==
    /\ tasks[t].pc = "errsleep"
    /\ ~tasks[t].cancel
    /\ tasks' = [tasks EXCEPT ![t] = LoopTop]
    /\ returned' = <<>>
    /\ answer' = None
    /\ UNCHANGED <<web, source, TESTING, _config, queue, emitting, created, _running,
                   _task, _db_session_factory, stopping, stops, ready, deliveries, h>>

\* the CancelledError of Task.cancel() reaches the task at the await it is
\* suspended in: _process_loop breaks (or, in its except handler's sleep and
\* before its first step, the task ends cancelled). A task that never ran is
\* cancelled at its first step; the stop() calls awaiting the task are queued.
TaskCancelled(t) ==
    /\ tasks[t].pc \notin {"none", "done"}
    /\ tasks[t].cancel
    /\ tasks[t].pc = "created" => NextReady("first", t)
    /\ ready' = (IF tasks[t].pc = "created" THEN Tail(ready) ELSE ready) \o Wakeups(t)
    /\ tasks' = [tasks EXCEPT ![t] = Idle("done")]
    /\ h' = IF tasks[t].event = None THEN h
            ELSE [h EXCEPT !.ended[tasks[t].event[1].event_id] = "cancelled"]
    /\ returned' = <<>>
    /\ answer' = None
    /\ UNCHANGED <<web, source, TESTING, _config, queue, emitting, created, _running,
                   _task, _db_session_factory, stopping, stops, deliveries>>

----------------------------------------------------------------------------
(* worker.py: start() and stop() *)

\* start(): returns at once when already running; else creates task t
Start(t) ==
    /\ ~_running
    /\ tasks[t].pc = "none"
    /\ \A u \in TaskIds : u < t => tasks[u].pc # "none"
    /\ _running' = TRUE
    /\ tasks' = [tasks EXCEPT ![t] = Idle("created")]
    /\ _task' = Some(t)
    /\ ready' = Append(ready, [kind |-> "first", task |-> t])
    /\ returned' = <<>>
    /\ answer' = None
    /\ UNCHANGED <<web, source, TESTING, _config, queue, emitting, created,
                   _db_session_factory, stopping, stops, deliveries, h>>

\* stop() up to `await self._task`; n is the call's number. A task that is
\* already done is awaited without suspending.
StopBegin(n) ==
    /\ n = stops + 1
    /\ stops' = n
    /\ _running' = FALSE
    /\ IF _task = None
       THEN UNCHANGED <<web, _task, tasks, stopping>>
       ELSE LET t == _task[1]
            IN IF tasks[t].pc = "done"
               THEN /\ _task' = None
                    /\ UNCHANGED <<web, tasks, stopping>>
               ELSE /\ tasks' = [tasks EXCEPT ![t].cancel = TRUE]
                    /\ stopping' = [stopping EXCEPT ![t] = @ + 1]
                    /\ UNCHANGED _task
    /\ returned' = <<>>
    /\ answer' = None
    /\ UNCHANGED <<web, source, TESTING, _config, queue, emitting, created,
                   _db_session_factory, ready, deliveries, h>>

\* stop() after `await self._task`: the awaited task t is done
StopResume(t) ==
    /\ stopping[t] > 0
    /\ tasks[t].pc = "done"
    /\ NextReady("resume", t)
    /\ ready' = Tail(ready)
    /\ stopping' = [stopping EXCEPT ![t] = @ - 1]
    /\ _task' = None
    /\ returned' = <<>>
    /\ answer' = None
    /\ UNCHANGED <<web, source, TESTING, _config, queue, emitting, created, _running,
                   _db_session_factory, tasks, stops, deliveries, h>>

----------------------------------------------------------------------------
(* Specifications *)

\* the endpoints of the model's config/webhooks.yaml
SourceEndpoints == <<EndpointA, EndpointPlainHttp, EndpointB, EndpointDisabled>>

\* one step of task t, the POST answering from `responses`
WorkerStep(t, responses) ==
    \/ TaskFirstRun(t)
    \/ BlpopTimeout(t)
    \/ BlpopReturn(t)
    \/ \E r \in responses : PostReturn(t, r)
    \/ SleepReturn(t)
    \/ \E ok \in BOOLEAN : LogReturn(t, ok)
    \/ ErrSleepReturn(t)
    \/ TaskCancelled(t)

\* one step of an emit() call
EmitStep(events, types) ==
    \/ \E e \in events, ty \in types : EmitBegin(e, ty)
    \/ \E ty \in types : EmitSkip(ty)
    \/ \E ev \in emitting : EmitPush(ev)
    \/ \E ev \in emitting, landed \in BOOLEAN : EmitPushFail(ev, landed)

\* Lifecycle scenario: start() and stop() called at any time, concurrent
\* emit() calls of a subscribed event type, several loops.
Init == InitWith({Source(SourceEndpoints, 1, 1)}, BOOLEAN)

Next ==
    \/ EmitStep(1..MaxEvents, {"user.created"})
    \/ \E t \in TaskIds : Start(t)
    \/ \E n \in 1..MaxStops : StopBegin(n)
    \/ \E t \in TaskIds : StopResume(t)
    \/ \E t \in TaskIds : WorkerStep(t, FewResponses \cup {OtherException})

Spec == Init /\ [][Next]_vars

\* Delivery scenario: one loop built as WebhookWorker(), without a session
\* factory, stopped at most once; every setting and every response.
DeliverySources ==
    {Source(SourceEndpoints, m, b) :
         m \in (0 - 1)..MaxRetriesBound, b \in (0 - 1)..MaxBaseDelay}

InitDelivery == InitWith(DeliverySources, {FALSE})

NextDelivery ==
    \/ EmitStep(1..DeliveryEvents, EventTypes)
    \/ Start(1)
    \/ StopBegin(1)
    \/ StopResume(1)
    \/ TaskFirstRun(1)
    \/ BlpopTimeout(1)
    \/ BlpopReturn(1)
    \/ \E r \in AllResponses : PostReturn(1, r)
    \/ SleepReturn(1)
    \/ ErrSleepReturn(1)
    \/ TaskCancelled(1)

SpecDelivery == InitDelivery /\ [][NextDelivery]_vars

\* Delivery-log scenario: one loop with or without a session factory, the
\* commit succeeding or failing.
LogSources == {Source(SourceEndpoints, 0 - 1, 0), Source(SourceEndpoints, 1, 0)}

LogResponses == {Response(200, 2), Response(400, 11), Response(500, 21), Timeout}

InitLog == InitWith(LogSources, BOOLEAN)

NextLog ==
    \/ EmitStep(1..LogEvents, EventTypes)
    \/ Start(1)
    \/ StopBegin(1)
    \/ StopResume(1)
    \/ WorkerStep(1, LogResponses \cup {OtherException})

SpecLog == InitLog /\ [][NextLog]_vars

\* Emission-order scenario: concurrent emit() calls and one loop.
InitOrder == InitWith({Source(SourceEndpoints, 0, 1)}, {FALSE})

NextOrder ==
    \/ EmitStep(1..OrderEvents, {"user.created", "user.login"})
    \/ Start(1)
    \/ TaskFirstRun(1)
    \/ BlpopTimeout(1)
    \/ BlpopReturn(1)
    \/ \E r \in FewResponses : PostReturn(1, r)

SpecOrder == InitOrder /\ [][NextOrder]_vars

\* Emitter scenario: emit() calls against every kind of configuration
\* source, with and without a running loop.
EmitSources ==
    {Source(SourceEndpoints, 0, 0),
     Source(<<EndpointA, EndpointUrlNotString>>, 0, 0),
     BadSource("missing"), BadSource("malformed"),
     BadSource("unreadable"), BadSource("not_mapping")}

InitEmit == InitWith(EmitSources, {FALSE})

\* the steps of the emitter scenario that the event loop, a timer or the
\* timeout of the POST bring about, whatever the Valkey server does
LoopStep ==
    \/ TaskFirstRun(1)
    \/ \E r \in FewResponses \cup {OtherException} : PostReturn(1, r)
    \/ ErrSleepReturn(1)

NextEmit ==
    \/ EmitStep(1..EmitEvents, EventTypes)
    \/ \E ty \in EventTypes : EmitRaise(ty)
    \/ \E ty \in EventTypes : EmitUnserializable(ty)
    \/ Start(1)
    \/ BlpopTimeout(1)
    \/ BlpopReturn(1)
    \/ LoopStep

SpecEmit == InitEmit /\ [][NextEmit]_vars

\* the same with the scheduling the event loop guarantees: a ready task, a
\* due timer and a POST under its timeout take their step; nothing makes the
\* Valkey server answer
SpecEmitLive == SpecEmit /\ WF_vars(LoopStep)

\* Loader scenario: the operator edits config/webhooks.yaml and calls
\* POST /webhooks/reload; emit() calls load the config on first use.
ConfigSources ==
    {Source(SourceEndpoints, 1, 0),
     Source(<<EndpointB, EndpointNoEvents, EndpointDisabled, EndpointNoSecret, EndpointA>>,
            0, 0),
     Source(<<EndpointA, EndpointUrlNotString, EndpointB>>, 0, 0),
     Source(<<>>, 0, 0),
     BadSource("missing"), BadSource("malformed"),
     BadSource("unreadable"), BadSource("not_mapping")}

InitConfig == InitWith(ConfigSources, {FALSE})

NextConfig ==
    \/ \E src \in ConfigSources : EditSource(src)
    \/ Reload
    \/ EmitStep(1..EmitEvents, EventTypes)
    \/ \E ty \in EventTypes : EmitRaise(ty)

SpecConfig == InitConfig /\ [][NextConfig]_vars

\* Reload scenario: the config is edited and reloaded while events are
\* emitted and one loop delivers them.
ReloadSources ==
    {Source(<<EndpointA, EndpointB>>, 0, 0),
     Source(<<EndpointB, EndpointDisabled>>, 1, 0)}

InitReload == InitWith(ReloadSources, {FALSE})

NextReload ==
    \/ \E src \in ReloadSources : EditSource(src)
    \/ Reload
    \/ EmitStep(1..ReloadEvents, {"user.created", "user.deleted"})
    \/ Start(1)
    \/ TaskFirstRun(1)
    \/ BlpopTimeout(1)
    \/ BlpopReturn(1)
    \/ \E r \in FewResponses \cup {OtherException} : PostReturn(1, r)
    \/ SleepReturn(1)
    \/ ErrSleepReturn(1)

SpecReload == InitReload /\ [][NextReload]_vars

\* Queue scenario: other clients push malformed entries between the events
\* of emit(), one loop consumes them and is stopped at most once.
InitQueue == InitWith({Source(<<EndpointA>>, 0, 0)}, {FALSE})

NextQueue ==
    \/ \E entry \in MalformedEntries : ForeignPush(entry)
    \/ EmitStep(1..QueueEvents, {"user.created", "user.deleted"})
    \/ Start(1)
    \/ StopBegin(1)
    \/ StopResume(1)
    \/ TaskFirstRun(1)
    \/ BlpopTimeout(1)
    \/ BlpopReturn(1)
    \/ \E r \in FewResponses \cup {OtherException} : PostReturn(1, r)
    \/ ErrSleepReturn(1)
    \/ TaskCancelled(1)

SpecQueue == InitQueue /\ [][NextQueue]_vars

\* Endpoint-list scenario: the operator's file lists an id once or twice;
\* reload() and emit() calls load it.
\* an endpoint whose secret is the reference ${HOOK_SECRET}
EndpointVarSecret ==
    [id |-> "ep-var", url |-> <<"https://", "v.example/hook">>,
     secret |-> <<"${", "HOOK_SECRET", "}">>,
     events |-> <<"user.created">>, enabled |-> TRUE]

\* what /run/secrets/hook_secret can be: missing, not readable by the
\* process, not UTF-8, or a text
SecretFiles ==
    {[state |-> "absent", text |-> <<>>],
     [state |-> "unreadable", text |-> <<"file-secret">>],
     [state |-> "undecodable", text |-> <<>>],
     [state |-> "ok", text |-> <<"file-secret", "\n">>],
     [state |-> "ok", text |-> <<"\n">>],
     [state |-> "ok", text |-> <<>>]}

\* what the environment variable HOOK_SECRET can be: unset or empty, or set
EnvValues == {<<>>, <<"env-secret">>}

\* a source whose endpoint takes its secret from the deployment
SecretSource(file, value) ==
    [Source(<<EndpointVarSecret, EndpointB>>, 0, 0)
        EXCEPT !.secrets = [hook_secret |-> file], !.env = [HOOK_SECRET |-> value]]

LoadSources ==
    {Source(<<EndpointA, EndpointB>>, 0, 0),
     Source(<<EndpointA, EndpointADuplicate, EndpointB>>, 0, 0),
     Source(<<EndpointDisabled, EndpointB>>, 0, 0),
     BadSource("missing")}
    \cup {SecretSource(file, value) : file \in SecretFiles, value \in EnvValues}

InitLoad == InitWith(LoadSources, {FALSE})

NextLoad ==
    \/ \E src \in LoadSources : EditSource(src)
    \/ Reload
    \/ EmitStep(1..LoadEvents, EventTypes)

SpecLoad == InitLoad /\ [][NextLoad]_vars

\* Signer scenario: a caller signs one (payload, secret, timestamp) and
\* verifies the signature against another one. Texts are sequences of
\* characters here.
Texts(chars, n) == UNION {[1..k -> chars] : k \in 0..n}

SignerPayloads == Texts({"0", "."}, MaxPayloadLen)

SignerSecrets == {<<"s">> \o pad : pad \in Texts({"t", NUL}, MaxSecretLen)}

\* the clock, around a carry of its decimal form
Timestamps == (MaxTimestamp - 1)..MaxTimestamp

SignerInputs ==
    [payload : SignerPayloads, secret : SignerSecrets, timestamp : Timestamps]

InitSigner ==
    /\ InitBut({Source(<<>>, 0, 0)}, {FALSE})
    /\ answer \in {Some([op |-> "inputs", signed |-> a, checked |-> b]) :
                       a \in SignerInputs, b \in SignerInputs}

\* sign(payload, secret, timestamp) on the first input
SignCall ==
    /\ answer # None
    /\ answer[1].op = "inputs"
    /\ answer' = Some([op |-> "sign", signed |-> answer[1].signed,
                        checked |-> answer[1].checked,
                        signature |-> sign(answer[1].signed.payload,
                                           answer[1].signed.secret,
                                           answer[1].signed.timestamp).signature])
    /\ UNCHANGED <<web, source, TESTING, _config, queue, emitting, created, _running,
                   _task, _db_session_factory, tasks, stopping, stops, ready,
                   deliveries, returned, h>>

\* verify(payload, secret, timestamp, signature) on the second input and the
\* signature of the first
VerifyCall ==
    /\ answer # None
    /\ answer[1].op = "sign"
    /\ answer' = Some([op |-> "verify", signed |-> answer[1].signed,
                        checked |-> answer[1].checked,
                        signature |-> answer[1].signature,
                        result |-> verify(answer[1].checked.payload,
                                          answer[1].checked.secret,
                                          answer[1].checked.timestamp,
                                          answer[1].signature)])
    /\ UNCHANGED <<web, source, TESTING, _config, queue, emitting, created, _running,
                   _task, _db_session_factory, tasks, stopping, stops, ready,
                   deliveries, returned, h>>

NextSigner == SignCall \/ VerifyCall

SpecSigner == InitSigner /\ [][NextSigner]_vars

\* Request-handler scenario: logins, profile changes, links, unlinks and
\* deletions, one request at a time; the endpoint subscribes to some of the
\* event types.
EndpointLifecycle ==
    [EndpointA EXCEPT !.events = <<"user.created", "user.deleted">>]

InitCallers == InitWith({Source(<<EndpointLifecycle>>, 0, 0)}, {FALSE})

NextCallers ==
    \/ \E p \in Providers, y \in UserIds : LoginCallback(p, y)
    \/ LoginResume
    \/ \E u \in UserIds, p \in Providers : LinkCallback(u, p)
    \/ \E u \in UserIds, p \in Providers : UnlinkAccount(u, p)
    \/ \E u \in UserIds : UpdateProfile(u, "own")
    \/ \E u \in UserIds, p \in Providers : SyncProfile(u, p)
    \/ \E u \in UserIds : DeleteAccount(u)
    \/ DeleteCommit
    \/ DeleteCommitFails
    \/ \E ev \in emitting : EmitPush(ev)

SpecCallers == InitCallers /\ [][NextCallers]_vars

\* Payload scenario: emit() and emit_user_event() calls with several kinds
\* of data, and one loop that pops the events, posts them to two endpoints
\* and writes the rows.
EventData ==
    {PlainData,
     <<Item(StrKey("changes"), PyList(<<"display_name", "avatar_url">>))>>,
     <<Item(StrKey("changes"), PyTuple(<<"display_name", "avatar_url">>))>>,
     <<Item(StrKey("logins"), PyInt("3"))>>,
     <<Item(IntKey("1"), PyStr("first"))>>,
     <<Item(IntKey("1"), PyStr("first")), Item(StrKey("1"), PyStr("second"))>>}

ExtraData ==
    {None,
     Some(<<>>),
     Some(<<Item(StrKey("provider"), PyStr("google"))>>),
     Some(<<Item(StrKey("email"), PyStr("a@example.com")),
            Item(StrKey("user_id"), PyStr("someone-else"))>>)}

InitPayload == InitWith({Source(<<EndpointA, EndpointB>>, 0, 0)}, {TRUE})

NextPayload ==
    \/ \E e \in 1..PayloadEvents, data \in EventData :
           EmitCall(e, "user.created", data, None)
    \/ \E e \in 1..PayloadEvents, u \in UserIds, extra \in ExtraData :
           EmitUserEvent(e, "user.created", u, extra)
    \/ \E ty \in {"user.created", "user.deleted"} : EmitSkip(ty)
    \/ \E ev \in emitting : EmitPush(ev)
    \/ Start(1)
    \/ TaskFirstRun(1)
    \/ BlpopTimeout(1)
    \/ BlpopReturn(1)
    \/ PostReturn(1, Response(200, 2))
    \/ LogReturn(1, TRUE)

SpecPayload == InitPayload /\ [][NextPayload]_vars

\* Frame scenario: config/webhooks.yaml is rewritten and reload() is called
\* while a delivery sequence is between two attempts. The two files differ in
\* every setting and in the url and the secret of the endpoint "ep-a".
FrameSources ==
    {Source(<<EndpointA, EndpointB>>, 1, 1),
     [Source(<<EndpointADuplicate>>, 2, 0) EXCEPT
          !.settings.delivery_timeout_seconds = Some(3)]}

InitFrame == InitWith(FrameSources, {FALSE})

NextFrame ==
    \/ \E src \in FrameSources : EditSource(src)
    \/ Reload
    \/ \E e \in 1..ReloadEvents : EmitBegin(e, "user.created")
    \/ \E ev \in emitting : EmitPush(ev)
    \/ Start(1)
    \/ TaskFirstRun(1)
    \/ BlpopTimeout(1)
    \/ BlpopReturn(1)
    \/ \E r \in FewResponses : PostReturn(1, r)
    \/ SleepReturn(1)

SpecFrame == InitFrame /\ [][NextFrame]_vars

----------------------------------------------------------------------------
(* Vocabulary of the properties *)

EndpointIds == {SourceEndpoints[i].id : i \in 1..Len(SourceEndpoints)}

\* the place of event e in the order of the pops
PopIndex(e) == CHOOSE i \in 1..Len(h.popped) : h.popped[i] = e

\* the queue holds an entry of event e
Queued(e) ==
    \E k \in 1..Len(queue) :
        ParseOutcome(queue[k]) = "event" /\ queue[k].value.event_id = UuidToStr(e)

\* an attempt's HTTP status (None: no response) by class
Is2xx(status) == status # None /\ 200 <= status[1] /\ status[1] < 300
Is4xx(status) == status # None /\ 400 <= status[1] /\ status[1] < 500
IsRetryable(status) == ~Is2xx(status) /\ ~Is4xx(status)

\* the delivery sequences the state shows: those of the calls that returned
\* in the last step, and those the tasks are in the middle of
Returned == Range(returned)
Delivering == {tasks[t] : t \in {u \in TaskIds : tasks[u].pc \in {"post", "sleep"}}}
Logging == {tasks[t] : t \in {u \in TaskIds : tasks[u].pc = "log"}}

\* the rows of the table for an (event, endpoint) pair
RowsFor(e, ep) ==
    {k \in 1..Len(deliveries) :
         deliveries[k].event_id = e /\ deliveries[k].endpoint_id = ep}

----------------------------------------------------------------------------
(* C1 - C10: delivery guarantees of the worker *)

\* C1 (as claimed): whenever a running loop is through with an event it
\* popped (_process_next_event returned or raised), at least one POST was
\* started to every endpoint that was enabled and subscribed at the pop.
C1_AtLeastOnce ==
    \A e \in EventIds :
        h.ended[e] \in {"returned", "raised"} =>
            \A i \in 1..Len(h.snapshot[e]) :
                <<e, h.snapshot[e][i]>> \in Range(h.began)

\* C2 (as claimed): an event whose processing stop() cut short has a terminal
\* outcome at every endpoint it was popped for, or is back on the queue.
C2_StopKeepsPopped ==
    \A e \in EventIds :
        h.ended[e] = "cancelled" =>
            \/ \A i \in 1..Len(h.snapshot[e]) : <<e, h.snapshot[e][i]>> \in h.terminal
            \/ Queued(e)

\* C3 (as claimed): at one endpoint, the first attempts of two events begin
\* in the order the events were popped.
C3_PerEndpointOrder ==
    \A i, j \in 1..Len(h.began) :
        (i < j /\ h.began[i][2] = h.began[j][2]) =>
            PopIndex(h.began[i][1]) < PopIndex(h.began[j][1])

\* C4 (as claimed): the events are popped in the order emit() created them
\* (the event number is the order of creation, and the timestamp).
C4_EmissionOrder ==
    \A i, j \in 1..Len(h.popped) : i < j => h.popped[i] < h.popped[j]

\* C4 (amended): the events are popped in the order their rpush completed,
\* so an event whose emit() had returned before another emit() began is
\* popped before that one's event.
C4_PushOrder ==
    /\ \A i \in 1..Len(h.popped) :
           i <= Len(h.pushed) /\ h.popped[i] = h.pushed[i]
    /\ \A b \in Range(h.popped) : \A a \in h.emitBefore[b] :
           a \in Range(h.popped) /\ PopIndex(a) < PopIndex(b)

\* C4 witness: two events of emit() calls that did not overlap were popped.
C4_Witness ==
    \E a, b \in Range(h.popped) : a \in h.emitBefore[b]

\* C5 (as claimed): a _deliver_to_endpoint call that returned left exactly
\* one row for its (event, endpoint), with the result's attempt_count.
C5_ExactlyOneRow ==
    \A c \in Returned :
        /\ Cardinality(RowsFor(c.event_id, c.endpoint_id)) = 1
        /\ \A k \in RowsFor(c.event_id, c.endpoint_id) :
               deliveries[k].attempt_count = c.result.attempt_count

\* C5 (amended): a delivery sequence leaves at most one row, never one before
\* its terminal outcome; the call that returned left exactly one, with the
\* result's attempt_count and status, when the worker has a session factory
\* and the commit went through, and none otherwise.
C5_AtMostOneRow ==
    /\ \A e \in EventIds, ep \in EndpointIds : Cardinality(RowsFor(e, ep)) <= 1
    /\ \A k \in 1..Len(deliveries) :
           <<deliveries[k].event_id, deliveries[k].endpoint_id>> \in h.terminal
    /\ \A d \in Delivering : RowsFor(d.event[1].event_id, d.endpoints[d.idx].id) = {}
    /\ \A c \in Returned :
           IF c.log = "written"
           THEN /\ Cardinality(RowsFor(c.event_id, c.endpoint_id)) = 1
                /\ \A k \in RowsFor(c.event_id, c.endpoint_id) :
                       /\ deliveries[k].attempt_count = c.result.attempt_count
                       /\ deliveries[k].http_status = c.result.http_status
                       /\ deliveries[k].status =
                              (IF c.result.success THEN "success" ELSE "failed")
           ELSE RowsFor(c.event_id, c.endpoint_id) = {}

\* C5 witness: a sequence of several attempts returned and has its one row.
C5_Witness ==
    \E c \in Returned :
        /\ c.log = "written"
        /\ Len(c.statuses) >= 2
        /\ Cardinality(RowsFor(c.event_id, c.endpoint_id)) = 1

\* C6 (as claimed): a returned result and a row are success exactly when the
\* last attempt got a 2xx; a failed one has a status outside [200,300), or no
\* status and an error_message; no row is pending.
C6_OutcomeInvariant ==
    /\ \A c \in Returned :
           /\ c.result.success <=>
                  (c.statuses # <<>> /\ Is2xx(c.statuses[Len(c.statuses)]))
           /\ ~c.result.success =>
                  \/ c.result.http_status # None /\ ~Is2xx(c.result.http_status)
                  \/ c.result.http_status = None /\ c.result.error_message # None
    /\ \A k \in 1..Len(deliveries) :
           /\ deliveries[k].status \in {"success", "failed"}
           /\ deliveries[k].status = "success" <=> Is2xx(deliveries[k].http_status)
           /\ deliveries[k].status = "failed" =>
                  \/ deliveries[k].http_status # None
                  \/ deliveries[k].error_message # None

\* a sequence with a 4xx has it as its last attempt, is failed, counts
\* that attempt and slept only before its attempts
EndsAt4xx(v) ==
    \A i \in 1..Len(v.statuses) :
        Is4xx(v.statuses[i]) =>
            /\ i = Len(v.statuses)
            /\ ~v.result.success
            /\ v.result.attempt_count = i
            /\ Len(v.sleeps) = i - 1

\* C7: after a 4xx no sleep and no attempt follows, and the sequence ends
\* FAILED with attempt_count the number of that attempt.
C7_NoRetryOn4xx ==
    /\ \A d \in Delivering : \A i \in 1..Len(d.statuses) : ~Is4xx(d.statuses[i])
    /\ \A d \in Logging : EndsAt4xx(d)
    /\ \A c \in Returned : EndsAt4xx(c)

\* C7 witness: a sequence got a 4xx on a retry, with retries left, and ended.
C7_Witness ==
    \E c \in Returned :
        /\ Len(c.statuses) = 2
        /\ Is4xx(c.statuses[2])
        /\ c.max_retries = 2
        /\ c.result.attempt_count = 2

\* C8 (as claimed): a sequence makes at most max_retries + 1 attempts, and
\* one whose attempts were all retryable made exactly max_retries + 1 and
\* ended FAILED with that attempt_count.
C8_BoundedRetry ==
    /\ \A d \in Delivering \cup Logging : Len(d.statuses) <= d.max_retries + 1
    /\ \A c \in Returned :
           /\ Len(c.statuses) <= c.max_retries + 1
           /\ (\A i \in 1..Len(c.statuses) : IsRetryable(c.statuses[i])) =>
                  /\ Len(c.statuses) = c.max_retries + 1
                  /\ ~c.result.success
                  /\ c.result.attempt_count = c.max_retries + 1

\* a sequence with a 2xx has it as its last attempt, after at most
\* max_retries earlier ones, is a success and counts that attempt
EndsAt2xx(v) ==
    \A i \in 1..Len(v.statuses) :
        Is2xx(v.statuses[i]) =>
            /\ i = Len(v.statuses)
            /\ \A j \in 1..(i - 1) : IsRetryable(v.statuses[j])
            /\ i - 1 <= v.max_retries
            /\ v.result.success
            /\ v.result.http_status = v.statuses[i]
            /\ v.result.attempt_count = i

\* C9: k retryable attempts and then a 2xx give success with
\* attempt_count k + 1, and no attempt follows the 2xx.
C9_RetryThenSucceed ==
    /\ \A d \in Delivering : \A i \in 1..Len(d.statuses) : ~Is2xx(d.statuses[i])
    /\ \A d \in Logging : EndsAt2xx(d)
    /\ \A c \in Returned : EndsAt2xx(c)

\* C9 witness: two retryable attempts, then a 2xx: success, attempt_count 3.
C9_Witness ==
    \E c \in Returned :
        /\ Len(c.statuses) = 3
        /\ IsRetryable(c.statuses[1]) /\ IsRetryable(c.statuses[2])
        /\ Is2xx(c.statuses[3])
        /\ c.result.success
        /\ c.result.attempt_count = 3

\* C10 (as claimed): a sequence that returned slept attempt_count - 1 times,
\* the i-th time base * 2^(i-1) seconds, each delay at least the one before
\* and its double.
C10_Backoff ==
    \A c \in Returned :
        /\ Len(c.sleeps) = c.result.attempt_count - 1
        /\ \A i \in 1..Len(c.sleeps) : c.sleeps[i] = c.base_delay * Pow2(i - 1)
        /\ \A i \in 2..Len(c.sleeps) :
               /\ c.sleeps[i] >= c.sleeps[i - 1]
               /\ c.sleeps[i] = 2 * c.sleeps[i - 1]

----------------------------------------------------------------------------
(* C11 - C20: the emitter, the configuration loader and the worker loop *)

\* the emit() call that ended in the last step
EmitEnded == answer # None /\ answer[1].op = "emit"

\* C11 (as claimed): emit() returns None without a push exactly when no
\* enabled endpoint subscribes; else it returns the event after one push at
\* the tail.
C11_GatingIff ==
    EmitEnded =>
        /\ (answer[1].result = "none" /\ answer[1].pushes = 0) <=> ~answer[1].found
        /\ answer[1].found =>
               answer[1].result = "event" /\ answer[1].pushes = 1 /\ answer[1].at_tail

\* C11 (amended): without a subscribed enabled endpoint, and in the test
\* environment, emit() pushes nothing and returns no event; it returns an
\* event only when an endpoint subscribes, after exactly one push at the
\* tail; a call never pushes more than one entry, and only at the tail.
C11_Gating ==
    EmitEnded =>
        /\ ~answer[1].found => answer[1].pushes = 0 /\ answer[1].result # "event"
        /\ TESTING => answer[1].pushes = 0 /\ answer[1].result = "none"
        /\ answer[1].result = "event" =>
               answer[1].found /\ ~TESTING /\ answer[1].pushes = 1
        /\ answer[1].pushes \in {0, 1}
        /\ answer[1].at_tail

\* C11 witness: an emit() call returned its event behind an entry that was
\* already queued.
C11_Witness ==
    /\ EmitEnded
    /\ answer[1].result = "event"
    /\ answer[1].pushes = 1
    /\ Len(queue) = 2

\* C12 (as claimed): no emit() call raises.
C12_NeverRaises == EmitEnded => answer[1].result \in {"event", "none"}

\* a step of an emit() call
EmitStepTaken == emitting' # emitting \/ (answer' # None /\ answer'[1].op = "emit")

\* C13: an emit() call adds at most one entry to the queue; its steps leave
\* the loops, their deliveries and the delivery log as they are; and a call
\* suspended in its push can complete whatever the loops are doing.
C13_NoDelivery ==
    /\ [](EmitEnded => answer[1].pushes <= 1)
    /\ [](\A ev \in emitting : ENABLED EmitPush(ev))
    /\ [][EmitStepTaken =>
             /\ UNCHANGED <<web, tasks, ready, _running, _task, deliveries>>
             /\ h'.began = h.began
             /\ h'.popped = h.popped]_vars

\* C13 witness: an emit() call returned its event and no loop was ever started.
C13_Witness ==
    /\ EmitEnded
    /\ answer[1].result = "event"
    /\ ~_running
    /\ \A t \in TaskIds : tasks[t].pc = "none"

\* the emit() call of event e is suspended in its push
Pending(e) == \E ev \in emitting : ev.event_id = e

\* C14 (as claimed): an emit() call that awaits its push returns after a
\* bounded wait, whatever the queue does.
C14_BoundedWait == \A e \in 1..EmitEvents : Pending(e) ~> ~Pending(e)

\* the reload() call that ended in the last step
ReloadEnded == answer # None /\ answer[1].op = "reload"

\* C15 (as claimed): reload() on a source that is not valid YAML raises and
\* leaves the config that was loaded before in place.
C15_MalformedKeepsConfig ==
    (ReloadEnded /\ answer[1].kind = "malformed") =>
        /\ answer[1].raised
        /\ answer[1].after = answer[1].before

\* a raw endpoint passes validation: id, url, secret and events are there,
\* the url starts with https://, the (literal) secret is not empty
Passes(data) ==
    /\ data.id # ""
    /\ data.url # <<>>
    /\ data.secret # <<>>
    /\ data.events # <<>>
    /\ data.url[1] = "https://"

\* the k-th smallest member of a set of indices
Kth(idx, k) == CHOOSE i \in idx : Cardinality({j \in idx : j < i}) = k - 1

\* C19 (as claimed): after load() of a YAML mapping the config holds exactly
\* the source endpoints that pass validation, in source order, whatever the
\* other entries of the source are.
C19_ExactlyValid ==
    (ReloadEnded /\ answer[1].kind = "ok") =>
        LET idx == {i \in 1..Len(source.endpoints) : Passes(source.endpoints[i])}
        IN /\ ~answer[1].raised
           /\ answer[1].after # None
           /\ Len(answer[1].after[1].endpoints) = Cardinality(idx)
           /\ \A k \in 1..Cardinality(idx) :
                  LET ep == answer[1].after[1].endpoints[k]
                      data == source.endpoints[Kth(idx, k)]
                  IN /\ ep.id = data.id
                     /\ ep.url = data.url
                     /\ ep.events = data.events
                     /\ ep.enabled = data.enabled

\* C20: get_endpoints_for_event(t) is the list of the config's endpoints
\* that are enabled and list t, in the config's order, for every type t.
C20_EnabledSubscribers ==
    ~ConfigRaises =>
        \A ty \in EventTypes :
            LET eps == get_config.endpoints
                idx == {i \in 1..Len(eps) :
                            eps[i].enabled /\ \E k \in 1..Len(eps[i].events) :
                                                  eps[i].events[k] = ty}
                got == get_endpoints_for_event(ty)
            IN /\ Len(got) = Cardinality(idx)
               /\ \A k \in 1..Len(got) : got[k] = eps[Kth(idx, k)]

\* C20 witness: a loaded config with a disabled subscriber of user.created
\* ahead of an enabled one, and two endpoints returned for that type.
C20_Witness ==
    /\ _config # None
    /\ Len(get_endpoints_for_event("user.created")) = 2
    /\ \E i, j \in 1..Len(_config[1].endpoints) :
           /\ i < j
           /\ ~_config[1].endpoints[i].enabled
           /\ _config[1].endpoints[j].enabled
           /\ subscribes_to(_config[1].endpoints[i], "user.created")
           /\ subscribes_to(_config[1].endpoints[j], "user.created")

\* the endpoints event e was posted to so far
PostedTo(e) == {ep \in EndpointIds \cup {"ep-off"} : <<e, ep>> \in Range(h.began)}

\* the ids of the enabled endpoints of cfg that list event_type
SubscriberIds(cfg, event_type) ==
    {cfg.endpoints[i].id : i \in
        {j \in 1..Len(cfg.endpoints) :
             /\ cfg.endpoints[j].enabled
             /\ \E k \in 1..Len(cfg.endpoints[j].events) :
                    cfg.endpoints[j].events[k] = event_type}}

\* the settings a delivery sequence of event e runs with are those of the
\* config the event's endpoints were looked up in
SameConfig(v, e) ==
    /\ h.pop[e] # None
    /\ v.max_retries = h.pop[e][1].config.settings.max_retries
    /\ v.base_delay = h.pop[e][1].config.settings.retry_base_delay_seconds

\* C16 (as claimed): the config in force is always one that load() built
\* from one source as a whole, and the endpoints and the settings used for
\* one event come from the same config.
C16_OneConfigPerEvent ==
    /\ _config # None =>
           \/ _config[1] = EmptyConfig
           \/ \E src \in ReloadSources : _config[1] = load(src)
    /\ \A c \in Returned : SameConfig(c, c.event_id)
    /\ \A d \in Delivering \cup Logging : SameConfig(d, d.event[1].event_id)

\* C17 (as claimed): an event is posted only to endpoints that are enabled
\* subscribers in the config in force at its pop, and once the loop is
\* through with the event, to every one of them.
C17_EndpointsAtPop ==
    \A e \in EventIds :
        h.pop[e] # None =>
            /\ PostedTo(e) \subseteq
                   SubscriberIds(h.pop[e][1].config, h.pop[e][1].event_type)
            /\ h.ended[e] \in {"returned", "raised"} =>
                   PostedTo(e) =
                       SubscriberIds(h.pop[e][1].config, h.pop[e][1].event_type)

\* C18: a loop ends only when stop() cancelled it or cleared _running; a
\* malformed entry leaves it at the pop or in the one-second backoff of its
\* except handler, and the backoff leads back to the pop.
C18_LoopSurvives ==
    [][\A t \in TaskIds :
          /\ (tasks[t].pc # "done" /\ tasks'[t].pc = "done") =>
                 (tasks[t].cancel \/ ~_running)
          /\ (/\ tasks[t].pc = "blpop"
              /\ queue # <<>>
              /\ queue' = Tail(queue)
              /\ ParseOutcome(Head(queue)) # "event"
              /\ _running
              /\ ~tasks[t].cancel) =>
                 tasks'[t].pc \in {"blpop", "errsleep"}
          /\ (/\ tasks[t].pc = "errsleep"
              /\ tasks'[t].pc # "errsleep"
              /\ _running
              /\ ~tasks[t].cancel) =>
                 tasks'[t].pc = "blpop"]_vars

\* C18 witness: the loop is back at the pop, with an entry waiting, after an
\* entry it rejected and one that made it raise.
C18_Witness ==
    /\ h.dropped = {"rejected", "raises"}
    /\ _running
    /\ tasks[1].pc = "blpop"
    /\ ~tasks[1].cancel
    /\ queue # <<>>

----------------------------------------------------------------------------
(* C21 - C30: the loaded config, the delivery record, the signer, the event *)
(* payload and the callers of the emitter *)

\* C21 (as claimed): the endpoints of a loaded config have pairwise distinct
\* ids.
C21_DistinctIds ==
    _config # None =>
        \A i, j \in 1..Len(_config[1].endpoints) :
            i # j => _config[1].endpoints[i].id # _config[1].endpoints[j].id

\* the last HTTP status a sequence of attempts observed (None: no attempt
\* got a response)
LastObserved(statuses) ==
    LET seen == {i \in 1..Len(statuses) : statuses[i] # None}
    IN IF seen = {} THEN None
       ELSE statuses[CHOOSE i \in seen : \A j \in seen : j <= i]

\* C22 (as claimed): the http_status of a returned result, and of its row,
\* is the last status any attempt of the sequence observed, and is null only
\* when no attempt got a response.
C22_LastObservedStatus ==
    \A c \in Returned :
        /\ c.result.http_status = LastObserved(c.statuses)
        /\ c.log = "written" =>
               \A k \in RowsFor(c.event_id, c.endpoint_id) :
                   deliveries[k].http_status = LastObserved(c.statuses)

\* C23 (as claimed): the attempt_count of a returned result, and of its
\* row, is the number of POSTs of the sequence and is at least 1.
C23_AttemptCount ==
    \A c \in Returned :
        /\ c.result.attempt_count = Len(c.statuses)
        /\ c.result.attempt_count >= 1
        /\ c.log = "written" =>
               \A k \in RowsFor(c.event_id, c.endpoint_id) :
                   /\ deliveries[k].attempt_count = Len(c.statuses)
                   /\ deliveries[k].attempt_count >= 1

\* C30: with no config/webhooks.yaml, reload() raises nothing and leaves the
\* empty config, whatever was loaded before; from then on (and when nothing
\* was loaded yet) no endpoint is returned for any type, no emit() call gets
\* as far as the push, and a call returns None with the queue as it was.
C30_MissingSource ==
    [][source.kind = "missing" =>
          /\ (answer' # None /\ answer'[1].op = "reload") =>
                 /\ ~answer'[1].raised
                 /\ _config' = Some(EmptyConfig)
          /\ _config \in {None, Some(EmptyConfig)} =>
                 /\ ~ConfigRaises
                 /\ \A ty \in EventTypes : get_endpoints_for_event(ty) = <<>>
                 /\ emitting' \subseteq emitting
                 /\ (answer' # None /\ answer'[1].op = "emit"
                         /\ emitting' = emitting) =>
                        /\ answer'[1].result = "none"
                        /\ queue' = queue
                        /\ ~TESTING => _config' = Some(EmptyConfig)]_vars

\* C30 witness: reload() found no file and replaced a config with endpoints
\* by the empty one.
C30_Witness ==
    /\ ReloadEnded
    /\ answer[1].kind = "missing"
    /\ ~answer[1].raised
    /\ answer[1].before # None
    /\ answer[1].before[1].endpoints # <<>>
    /\ _config = Some(EmptyConfig)

\* C25 (as claimed): from_payload(to_payload(e)) is e, and the event the
\* worker builds from a queue entry is the event emit() created, field by
\* field.
C25_RoundTrip ==
    /\ \A ev \in emitting : from_payload(to_payload(ev)) = ev
    /\ \A k \in 1..Len(queue) :
           ParseOutcome(queue[k]) = "event" =>
               LET ev == from_payload(json_loads(queue[k]))
               IN h.created[ev.event_id] = Some(ev)
    /\ \A t \in TaskIds :
           tasks[t].event # None =>
               h.created[tasks[t].event[1].event_id] = tasks[t].event

\* C27 (as claimed): the event an emit_user_event call returned has the
\* call's str(user_id) under the key user_id of its data.
C27_UserIdKept ==
    (EmitEnded /\ answer[1].event # None) =>
        LET ev == answer[1].event[1]
            user == h.user_id[ev.event_id]
        IN user # None =>
               \E i \in 1..Len(ev.data) :
                   /\ ev.data[i].key = StrKey("user_id")
                   /\ ev.data[i].value = PyStr(str_uuid(user[1]))

\* C29 (as claimed): an endpoint whose secret is ${NAME} gets the stripped
\* content of the secret file /run/secrets/<name> when that file gives a
\* secret, else the value of the environment variable NAME, and is rejected
\* only when neither gives one.
FileSecret(src) ==
    LET file == src.secrets.hook_secret
    IN IF file.state = "ok" THEN Strip(file.text) ELSE <<>>

ExpectedSecret(src) ==
    IF FileSecret(src) # <<>> THEN FileSecret(src) ELSE src.env.HOOK_SECRET

SecretsOf(config, id) ==
    {config.endpoints[i].secret : i \in {j \in DOMAIN config.endpoints :
                                            config.endpoints[j].id = id}}

C29_SecretResolution ==
    (/\ ReloadEnded
     /\ source.kind = "ok"
     /\ \E i \in DOMAIN source.endpoints : source.endpoints[i] = EndpointVarSecret)
        => SecretsOf(answer[1].after[1], "ep-var") =
               (IF ExpectedSecret(source) = <<>> THEN {} ELSE {ExpectedSecret(source)})

\* C26 (as claimed): a signature verifies, and verification with a secret, a
\* payload or a timestamp other than the signed one returns False.
VerifyEnded == answer # None /\ answer[1].op = "verify"

C26_OnlyTheSignedVerifies ==
    VerifyEnded => (answer[1].result <=> answer[1].checked = answer[1].signed)

\* b is a followed by NUL characters only
NulPadded(a, b) ==
    /\ Len(a) <= Len(b)
    /\ SubSeq(b, 1, Len(a)) = a
    /\ \A i \in (Len(a) + 1)..Len(b) : b[i] = NUL

\* C26 (amended): sign gives the same signature each time it is applied to
\* the same (payload, secret, timestamp), and verify returns True exactly
\* when payload and timestamp are the signed ones and the secret is the
\* signed one up to NUL characters at its end.
C26_SignVerify ==
    /\ (answer # None /\ answer[1].op = "sign")
           => answer[1].signature = sign(answer[1].signed.payload,
                                         answer[1].signed.secret,
                                         answer[1].signed.timestamp).signature
    /\ VerifyEnded
           => (answer[1].result <=>
                  /\ answer[1].checked.payload = answer[1].signed.payload
                  /\ answer[1].checked.timestamp = answer[1].signed.timestamp
                  /\ \/ NulPadded(answer[1].checked.secret, answer[1].signed.secret)
                     \/ NulPadded(answer[1].signed.secret, answer[1].checked.secret))

\* a verification of the signed payload and secret at another timestamp has
\* returned False
C26_Witness ==
    /\ VerifyEnded
    /\ answer[1].checked.payload = answer[1].signed.payload
    /\ answer[1].checked.secret = answer[1].signed.secret
    /\ answer[1].checked.timestamp # answer[1].signed.timestamp
    /\ ~answer[1].result

\* int(text) of the receiver for the X-Webhook-Timestamp header
ParseInt(text) == CHOOSE n \in Timestamps : str_int(n) = text

\* C24: the request of every POST in flight, whatever the clock was when it
\* was built, is self-consistent: its signature verifies against the body
\* sent, the secret of the target endpoint and the timestamp header; the
\* webhook_id of the body and the X-Webhook-ID header are the id of the
\* target endpoint; X-Webhook-Event is the event_type of the body.
Posting(t) == tasks[t].pc = "post"

C24_SelfConsistent ==
    \A t \in TaskIds : Posting(t) =>
        \A now \in Timestamps :
            LET endpoint == tasks[t].endpoints[tasks[t].idx]
                request == AttemptRequest(tasks[t].event[1], endpoint, now)
                body == request.content[1].value
            IN /\ verify(request.content, endpoint.secret,
                         ParseInt(request.headers.X_Webhook_Timestamp),
                         request.headers.X_Webhook_Signature)
               /\ body.webhook_id = endpoint.id
               /\ request.headers.X_Webhook_ID = endpoint.id
               /\ request.headers.X_Webhook_Event = body.event_type

\* a retry of the POST to the second endpoint is in flight
C24_Witness ==
    \E t \in TaskIds :
        /\ Posting(t)
        /\ tasks[t].idx = 2
        /\ tasks[t].attempt > 0

\* C28 (as claimed): when a request has returned, every user lifecycle
\* action it committed (created, updated, deleted, login, OAuth account
\* linked or unlinked) has an emit_user_event call of the request with the
\* corresponding event type and the id of the affected user.
RequestReturned == web.pc = "idle" /\ emitting = {}

C28_EveryActionEmits == RequestReturned => web.committed \subseteq web.calls

----------------------------------------------------------------------------
(* C31 - C39: independence of the endpoints, the single consumer, reloads *)
(* during a delivery, the identity of the event and the commit order      *)

\* C31 (as claimed): once the loop is through with an event, whether
\* _process_next_event returned or raised, a delivery sequence was started
\* for every endpoint the event was popped for; and a sequence starts at its
\* first attempt with no attempt made and no sleep taken.
C31_Independent ==
    /\ \A e \in EventIds :
           h.ended[e] \in {"returned", "raised"} =>
               \A i \in 1..Len(h.snapshot[e]) :
                   \E k \in 1..Len(h.began) : h.began[k] = <<e, h.snapshot[e][i]>>
    /\ \A d \in Delivering :
           d.attempt = 0 => (d.statuses = <<>> /\ d.sleeps = <<>>)

\* a response whose status is neither 2xx nor 4xx
IsOtherStatus(status) == status # None /\ ~Is2xx(status) /\ ~Is4xx(status)

\* in the sequence v every response that is neither 2xx nor 4xx was followed
\* by the backoff sleep of the next attempt, or was the attempt that used up
\* max_retries and left the sequence FAILED
RetriesOthers(v, over) ==
    \A i \in 1..Len(v.statuses) :
        IsOtherStatus(v.statuses[i]) =>
            IF i < Len(v.statuses) \/ ~over
            THEN /\ i <= v.max_retries
                 /\ Len(v.sleeps) >= i
                 /\ v.sleeps[i] = v.base_delay * Pow2(i - 1)
            ELSE /\ i = v.max_retries + 1
                 /\ ~v.result.success
                 /\ v.result.attempt_count = i

\* C32: a response with a status outside [200,300) and [400,500) is
\* retried after the backoff delay, until the sequence succeeds, gets a 4xx
\* or has made max_retries + 1 attempts.
C32_RetriesOtherStatus ==
    /\ \A d \in Delivering : RetriesOthers(d, FALSE)
    /\ \A d \in Logging : RetriesOthers(d, TRUE)
    /\ \A c \in Returned : RetriesOthers(c, TRUE)

\* C32 witness: a 3xx and a 5xx were retried, and the third attempt used up
\* max_retries.
C32_Witness ==
    \E c \in Returned :
        /\ Len(c.statuses) = 3
        /\ c.statuses[1] = Some(300)
        /\ c.statuses[2] = Some(500)
        /\ c.max_retries = 2
        /\ ~c.result.success

\* the loops that are alive: created or running, and not cancelled
Alive == {t \in TaskIds : tasks[t].pc \notin {"none", "done"} /\ ~tasks[t].cancel}

\* C33 (as claimed): whatever the order of the start() and stop() calls, at
\* most one processing loop is alive at any time.
C33_SingleConsumer == Cardinality(Alive) <= 1

\* every stop() call has returned and no start() call began after the last
\* one began
Quiesced == stops > 0 /\ ~_running /\ \A t \in TaskIds : stopping[t] = 0

\* the POST of a first attempt or of a retry begins in the step
AttemptBegins(t) ==
    /\ tasks'[t].pc = "post"
    /\ \/ tasks[t].pc # "post"
       \/ tasks'[t].attempt # tasks[t].attempt
       \/ tasks'[t].idx # tasks[t].idx
       \/ tasks'[t].event # tasks[t].event

\* C34 (as claimed): once stop() has returned and until a start() call
\* begins, no event is popped and no POST begins.
C34_StopQuiesces ==
    [][Quiesced =>
          /\ h'.popped = h.popped
          /\ \A t \in TaskIds : ~AttemptBegins(t)]_vars

\* the loops in the middle of the deliveries of an event
Busy == {t \in Alive : tasks[t].pc \in {"post", "sleep", "log"}}

\* C35 (as claimed): no event is popped, and no delivery of another event
\* begins, while the deliveries of an event are under way.
C35_OneAtATime ==
    /\ [](Cardinality(Busy) <= 1)
    /\ [][Busy # {} => h'.popped = h.popped]_vars


\* C36: a failed write of the Delivery Log row is swallowed. The step in which
\* the write of a task in _log_delivery fails returns, from
\* _deliver_to_endpoint, the very DeliveryResult the retry loop left, with the
\* attempts made so far and no further one; the loop does not go to its
\* exception handler and does not end while the worker runs; the delivery to
\* the next endpoint of the event starts with its first attempt, or, after the
\* last endpoint, the loop goes back to the queue.
LogWriteFails(t) ==
    /\ tasks[t].pc = "log"
    /\ ~tasks[t].cancel
    /\ tasks'[t] # tasks[t]
    /\ ~tasks'[t].cancel
    /\ deliveries' = deliveries
C36_LogFailureSwallowed ==
    [][\A t \in TaskIds : LogWriteFails(t) =>
          LET tk == tasks[t] IN
          /\ returned' # <<>>
          /\ returned'[1].event_id = tk.event[1].event_id
          /\ returned'[1].endpoint_id = tk.endpoints[tk.idx].id
          /\ returned'[1].result = tk.result
          /\ returned'[1].statuses = tk.statuses
          /\ tasks'[t].pc # "errsleep"
          /\ tasks'[t].pc = "done" => ~_running
          /\ IF tk.idx < Len(tk.endpoints)
             THEN /\ tasks'[t].pc \in {"post", "log"}
                  /\ tasks'[t].event = tk.event
                  /\ tasks'[t].endpoints = tk.endpoints
                  /\ tasks'[t].idx = tk.idx + 1
                  /\ tasks'[t].attempt = 0
                  /\ tasks'[t].statuses = <<>>
             ELSE tasks'[t].pc \in {"blpop", "done"}]_vars

\* the write of the row for the first endpoint failed, the call returned its
\* result and the POST to the second endpoint is in flight
C36_Witness ==
    /\ returned # <<>>
    /\ returned[1].log = "failed"
    /\ returned[1].statuses # <<>>
    /\ \E t \in TaskIds :
           /\ tasks[t].pc = "post"
           /\ tasks[t].idx = 2
           /\ tasks[t].event[1].event_id = returned[1].event_id
    /\ deliveries = <<>>


\* C37: the parameters of one endpoint's delivery sequence are fixed when the
\* sequence starts. A step that starts a sequence takes max_retries, the base
\* delay and the timeout from the configuration then in force and the endpoint
\* from the list the loop looked up for the event; no step that leaves the
\* task in the sequence, and no reload() in between, changes them or the endpoint (url, secret) the attempts are
\* posted to; and the attempts and the delays follow the parameters taken at
\* the start: no attempt beyond max_retries + 1, every delay the base delay
\* doubled, a sequence that gave up on a retryable failure made all its
\* attempts.
SequenceOf(tk) == <<tk.event, tk.idx>>
InSequence(t) == tasks[t].pc \in {"post", "sleep"}
SequenceStarts(t) ==
    /\ tasks'[t].pc = "post"
    /\ tasks'[t].attempt = 0
    /\ ~(InSequence(t) /\ SequenceOf(tasks[t]) = SequenceOf(tasks'[t]))
SequenceGoesOn(t) ==
    /\ InSequence(t)
    /\ tasks'[t].pc \in {"post", "sleep"}
    /\ SequenceOf(tasks'[t]) = SequenceOf(tasks[t])
FollowsParameters(v, over) ==
    /\ Len(v.statuses) <= v.max_retries + 1
    /\ \A i \in 1..Len(v.sleeps) : v.sleeps[i] = v.base_delay * Pow2(i - 1)
    /\ (over /\ ~v.result.success /\ ~Is4xx(v.result.http_status)) =>
           Len(v.statuses) = v.max_retries + 1
C37_ParametersFixed ==
    /\ [][\A t \in TaskIds :
             /\ SequenceStarts(t) =>
                    LET st == get_config.settings IN
                    /\ tasks'[t].max_retries = st.max_retries
                    /\ tasks'[t].base_delay = st.retry_base_delay_seconds
                    /\ tasks'[t].timeout = st.delivery_timeout_seconds
                    /\ tasks'[t].endpoints =
                           IF tasks[t].event = tasks'[t].event
                           THEN tasks[t].endpoints
                           ELSE get_endpoints_for_event(tasks'[t].event[1].event_type)
             /\ SequenceGoesOn(t) =>
                    /\ tasks'[t].max_retries = tasks[t].max_retries
                    /\ tasks'[t].base_delay = tasks[t].base_delay
                    /\ tasks'[t].timeout = tasks[t].timeout
                    /\ tasks'[t].endpoints[tasks'[t].idx] = tasks[t].endpoints[tasks[t].idx]
                    /\ tasks'[t].attempt \in {tasks[t].attempt, tasks[t].attempt + 1}]_vars
    /\ [](\A d \in Delivering : d.attempt <= d.max_retries /\ FollowsParameters(d, FALSE))
    /\ [](\A c \in Returned : FollowsParameters(c, TRUE))

\* a sequence to "ep-a" is at its second attempt while the configuration in
\* force, reloaded since it started, has other settings and another url and
\* secret for "ep-a"
C37_Witness ==
    \E t \in TaskIds :
        /\ tasks[t].pc = "post"
        /\ tasks[t].attempt = 1
        /\ _config # None
        /\ LET st == _config[1].settings
               now == _config[1].endpoints
               mine == tasks[t].endpoints[tasks[t].idx]
           IN /\ st.max_retries # tasks[t].max_retries
              /\ st.retry_base_delay_seconds # tasks[t].base_delay
              /\ st.delivery_timeout_seconds # tasks[t].timeout
              /\ \E i \in 1..Len(now) : /\ now[i].id = mine.id
                                         /\ now[i].url # mine.url
                                         /\ now[i].secret # mine.secret


\* C38 (as claimed): every attempt for an event posts the JSON text of the
\* event emit() created, with the endpoint's webhook_id added, so that the
\* bodies for two endpoints are equal but for webhook_id; and every Delivery
\* Log row of the event has its event_id and event_type.
BodyFor(event, endpoint) == AttemptRequest(event, endpoint, MaxTimestamp).content
C38_SameEvent ==
    /\ \A t \in TaskIds : Posting(t) =>
           LET orig == h.created[tasks[t].event[1].event_id][1] IN
           \A i \in 1..Len(tasks[t].endpoints) :
               /\ BodyFor(tasks[t].event[1], tasks[t].endpoints[i]) =
                      BodyFor(orig, tasks[t].endpoints[i])
               /\ BodyFor(tasks[t].event[1], tasks[t].endpoints[i])[1].value =
                      WithWebhookId(BodyFor(orig, tasks[t].endpoints[1])[1].value,
                                    tasks[t].endpoints[i].id)
    /\ \A k \in 1..Len(deliveries) :
           /\ h.created[deliveries[k].event_id] # None
           /\ deliveries[k].event_type =
                  h.created[deliveries[k].event_id][1].event_type


\* C39 (as claimed): an event of a user lifecycle change is queued only when
\* the change is committed: whenever the queue holds the event of a call
\* emit_user_event(type, user) of the last request, type being user.created,
\* user.updated, user.deleted or user.oauth_linked, that request has committed
\* the change of that type for that user.
LifecycleTypes == {"user.created", "user.updated", "user.deleted", "user.oauth_linked"}
QueuedFor(c) ==
    \E k \in 1..Len(queue) :
        /\ ParseOutcome(queue[k]) = "event"
        /\ LET ev == from_payload(json_loads(queue[k]))
           IN /\ ev.event_id = created
              /\ ev.event_type = c.event_type
              /\ h.user_id[ev.event_id] = Some(c.user_id)
C39_CommittedFirst ==
    \A c \in web.calls :
        (c.event_type \in LifecycleTypes /\ QueuedFor(c)) => c \in web.committed

====
